---- MODULE Spec2Model ----
(***************************************************************************)
(* BatchClip media pipeline (electron/main.ts): encoder attempt chains,    *)
(* the preview proxy handler and the two batch export handlers with their  *)
(* progress protocol.                                                      *)
(***************************************************************************)
EXTENDS Integers, Sequences, FiniteSets, TLC

(***************************************************************************)
(* State.                                                                  *)
(***************************************************************************)
VARIABLES
    platform,              \* process.platform
    files,                 \* the paths that exist on disk
    madeDirs,              \* directories created by fs.promises.mkdir
    previewProxyPaths,     \* the Proxy Registry (main.ts:32)
    handler,               \* the IPC handler being served, "none" when idle
    pc,                    \* the handler's position
    args,                  \* the handler's arguments
    probeInfo,             \* what the probe of the current source returned
    probeSpawns,           \* inspection processes spawned by this call
    i,                     \* the batch loop's index
    results,               \* the batch's result list
    lastReportedProgress,  \* the emitter's last rounded progress percent
    maxSegmentPercent,     \* the current item's largest progress sample
    events,                \* messages passed to event.sender.send
    response,              \* what the handler returned or threw
    encoderAttempts,       \* the attempt chain's candidate list
    index,                 \* the attempt chain's loop index
    lastErrorMessage,      \* the attempt chain's lastErrorMessage
    outputPath,            \* the attempt chain's output path
    durationSec,           \* the attempt chain's durationSec
    attempts,              \* the encoder subprocesses started by the chain, in order
    lastFailure,           \* message of the most recent encoder failure
    lastCleanup,           \* outcome of the unlink after the most recent failure
    fileStats,             \* size and mtime of each probed file, as a version (0: no file)
    probeInfoCache,        \* the Map probeInfoCache, in insertion order
    cacheWrites,           \* writeProbeCache calls waiting for their stat
    probe,                 \* the probeVideoInfo call whose inspection process runs
    probeLog,              \* the probeVideoInfo calls made, in order
    unlinks,               \* unlink calls of before-quit that have not completed
    quit,                  \* before-quit has run
    cleanupResult,         \* the last cleanup-preview call and what it returned
    rival                  \* a second call of the handler, served concurrently

envVars == <<platform, files, madeDirs, previewProxyPaths>>

callVars == <<handler, pc, args, probeInfo, probeSpawns, response>>

batchVars == <<i, results, lastReportedProgress, maxSegmentPercent, events>>

chainVars == <<encoderAttempts, index, lastErrorMessage, outputPath, durationSec,
               attempts, lastFailure, lastCleanup>>

cacheVars == <<fileStats, probeInfoCache, cacheWrites, probe, probeLog>>

quitVars == <<unlinks, quit, cleanupResult, rival>>

vars == <<envVars, callVars, batchVars, chainVars, cacheVars, quitVars>>

(***************************************************************************)
(* JavaScript numbers.  Every percent of the progress protocol is an IEEE  *)
(* 754 double; the handlers divide, multiply, add and Math.round them.  A  *)
(* non-negative double is [m, e]: the value m * 2^e with m a 53-bit        *)
(* integer held as four 14-bit limbs, least significant first (2^52 <= m   *)
(* < 2^53, or m = 0 for zero).  Results are rounded to nearest, ties to    *)
(* even, as the hardware does.                                             *)
(***************************************************************************)
LimbBase == 2^14

MantissaBits == 52 + 1

Limb(W, q) == IF q >= 0 /\ q < Len(W) THEN W[q + 1] ELSE 0

BitAt(W, j) == IF j < 0 THEN 0 ELSE (Limb(W, j \div 14) \div 2^(j % 14)) % 2

TopLimb(W) ==
    IF \A k \in 1..Len(W) : W[k] = 0 THEN 0
    ELSE CHOOSE k \in 1..Len(W) : W[k] # 0 /\ \A j \in (k+1)..Len(W) : W[j] = 0

BitLenSmall(x) == CHOOSE b \in 0..30 : x < 2^b /\ (b = 0 \/ x >= 2^(b-1))

BitLengthAt(W, k) == IF k = 0 THEN 0 ELSE 14 * (k - 1) + BitLenSmall(W[k])

BitLength(W) == BitLengthAt(W, TopLimb(W))

\* The 14 bits of W from bit pos upward (pos may be negative: a left shift).
ExtractLimb(W, pos) ==
    LET q == pos \div 14
        r == pos % 14
    IN  (Limb(W, q) \div 2^r) + (Limb(W, q + 1) % 2^r) * 2^(14 - r)

RECURSIVE ShiftFrom(_, _, _, _)
ShiftFrom(W, s, k, n) ==
    IF k > n THEN <<>>
    ELSE <<ExtractLimb(W, s + 14 * (k - 1))>> \o ShiftFrom(W, s, k + 1, n)

\* The n limbs of W from bit s upward.
ShiftLimbs(W, s, n) == ShiftFrom(W, s, 1, n)

\* Some bit of W strictly below bit s is set.
StickyBelow(W, s) ==
    /\ s > 0
    /\ \/ \E k \in 1..Len(W) : k <= s \div 14 /\ W[k] # 0
       \/ Limb(W, s \div 14) % 2^(s % 14) # 0

RECURSIVE AddFrom(_, _, _, _, _)
AddFrom(A, B, k, n, carry) ==
    IF k > n THEN <<>>
    ELSE <<(Limb(A, k - 1) + Limb(B, k - 1) + carry) % LimbBase>>
         \o AddFrom(A, B, k + 1, n, (Limb(A, k - 1) + Limb(B, k - 1) + carry) \div LimbBase)

AddLimbs(A, B, n) == AddFrom(A, B, 1, n, 0)

\* Column k of the schoolbook product of two 4-limb numbers.
Column(A, B, k) ==
    Limb(A, 0) * Limb(B, k) + Limb(A, 1) * Limb(B, k - 1)
    + Limb(A, 2) * Limb(B, k - 2) + Limb(A, 3) * Limb(B, k - 3)

RECURSIVE MulFrom(_, _, _, _)
MulFrom(A, B, k, carry) ==
    IF k > 7 THEN <<>>
    ELSE <<(Column(A, B, k) + carry) % LimbBase>>
         \o MulFrom(A, B, k + 1, (Column(A, B, k) + carry) \div LimbBase)

MulLimbs(A, B) == MulFrom(A, B, 0, 0)

\* Long division of the limbs of N by a small integer b, most significant
\* limb first: <<quotient limbs, remainder>>.
PutQuotientLimb(rest, q) == <<rest[1] \o <<q>>, rest[2]>>

RECURSIVE DivFrom(_, _, _, _)
DivFrom(N, b, k, r) ==
    IF k = 0 THEN <<<<>>, r>>
    ELSE PutQuotientLimb(DivFrom(N, b, k - 1, (r * LimbBase + N[k]) % b),
                         (r * LimbBase + N[k]) \div b)

Zero == [m |-> <<0, 0, 0, 0>>, e |-> 0]

IsZero(x) == x.m = <<0, 0, 0, 0>>

\* The double nearest to W * 2^e (sticky: the exact value lies above it).
\* A mantissa that rounding carried to 54 bits is halved.
Renormalize(R, e) ==
    IF BitLength(R) > MantissaBits
    THEN [m |-> ShiftLimbs(R, 1, 4), e |-> e + 1]
    ELSE [m |-> R, e |-> e]

\* The 53 leading bits M, rounded up when the bit below them (guard) is set
\* and either some lower bit is set (low) or M is odd.
RoundMantissa(M, e, guard, low) ==
    Renormalize(IF guard = 1 /\ (low \/ M[1] % 2 = 1) THEN AddLimbs(M, <<1>>, 4) ELSE M, e)

\* W * 2^e rounded at bit s of W.
RoundAt(W, e, sticky, s) ==
    RoundMantissa(ShiftLimbs(W, s, 4), e + s, BitAt(W, s - 1),
                  sticky \/ StickyBelow(W, s - 1))

RoundToDouble(W, e, sticky) ==
    IF \A k \in 1..Len(W) : W[k] = 0 THEN Zero
    ELSE RoundAt(W, e, sticky, BitLength(W) - MantissaBits)

FromInt(k) == RoundToDouble(<<k % LimbBase, k \div LimbBase>>, 0, FALSE)

\* x / b for a double x and a positive integer b (JavaScript's "/").
RoundQuotient(qr, e) == RoundToDouble(qr[1], e, qr[2] # 0)

DivD(x, b) ==
    IF IsZero(x) THEN Zero
    ELSE RoundQuotient(DivFrom(<<0, 0, 0, 0, 0>> \o x.m, b, 9, 0), x.e - 70)

\* x * y (JavaScript's "*").
MulD(x, y) ==
    IF IsZero(x) \/ IsZero(y) THEN Zero
    ELSE RoundToDouble(MulLimbs(x.m, y.m), x.e + y.e, FALSE)

\* x + y (JavaScript's "+").
AddD(x, y) ==
    IF IsZero(x) THEN y
    ELSE IF IsZero(y) THEN x
    ELSE LET e == IF x.e < y.e THEN x.e ELSE y.e
         IN  IF x.e - e > 60 THEN x
             ELSE IF y.e - e > 60 THEN y
             ELSE RoundToDouble(AddLimbs(ShiftLimbs(x.m, e - x.e, 9),
                                         ShiftLimbs(y.m, e - y.e, 9), 9), e, FALSE)

\* x < y.
LessD(x, y) ==
    IF IsZero(y) THEN FALSE
    ELSE IF IsZero(x) THEN TRUE
    ELSE IF x.e # y.e THEN x.e < y.e
    ELSE \E k \in 1..4 : x.m[k] < y.m[k] /\ \A j \in (k+1)..4 : x.m[j] = y.m[j]

MaxD(x, y) == IF LessD(x, y) THEN y ELSE x

MinD(x, y) == IF LessD(y, x) THEN y ELSE x

\* Math.round of a non-negative double below 2^28: halves round up.
MathRound(x) ==
    IF IsZero(x) THEN 0
    ELSE LET I == ShiftLimbs(x.m, 0 - x.e, 2)
         IN  I[1] + I[2] * LimbBase + BitAt(x.m, 0 - x.e - 1)

D100 == FromInt(100)


(***************************************************************************)
(* Values crossing the IPC boundary are untyped: a JavaScript value is a   *)
(* tagged record.  A string is a sequence of characters; the model keeps   *)
(* a file-name extension as one character of the sequence.                 *)
(***************************************************************************)
JsUndefined == [t |-> "undefined"]

JsNumber(n) == [t |-> "number", v |-> n]

\* NaN: typeof gives 'number', Number.isFinite gives false.
JsNaN == [t |-> "NaN"]

JsString(s) == [t |-> "string", v |-> s]

None == <<>>

Some(v) == <<v>>

\* Bounds of the model: the longest batch of the exhaustive runs, and the
\* length of the long batch of SpecLongBatch.
MaxItems == 2

LongBatch == 40

\* The bound of buildUniqueOutputPath's loop (100000 in main.ts:740).
SuffixLimit == 3

\* The preview job's encoders report progress while the job has sent fewer
\* messages than this.
MaxPreviewEvents == 5

\* MAX_PROBE_CACHE_ENTRIES (128, main.ts:113), scaled.
ProbeCacheCapacity == 2

\* probeVideoInfo calls in one behaviour of the probe cache.
MaxProbeCalls == ProbeCacheCapacity + 1

\* The files probed: one more than the cache holds.
ProbeFiles == {<<"in", "/", <<"1", "2", "3", "4", "5">>[k], ".mp4">> :
                 k \in 1..(ProbeCacheCapacity + 1)}

\* process.platform
Platforms == {"win32", "darwin", "linux"}

\* Messages of the errors fluent-ffmpeg reports for a failed run.
ErrorMessages == {"ffmpeg exited with code 1", "Conversion failed"}

RECURSIVE TrimStart(_)
TrimStart(s) == IF s # <<>> /\ Head(s) = " " THEN TrimStart(Tail(s)) ELSE s

RECURSIVE TrimEnd(_)
TrimEnd(s) ==
    IF s # <<>> /\ s[Len(s)] = " " THEN TrimEnd(SubSeq(s, 1, Len(s) - 1)) ELSE s

Trim(s) == TrimEnd(TrimStart(s))

ToLowerCase(c) == IF c = ".CUBE" THEN ".cube" ELSE IF c = "H264" THEN "h264" ELSE c

Extensions == {".cube", ".CUBE", ".txt", ".mp4", ".mov"}

\* path.extname: the last extension of the base name, none for a name that
\* is only an extension (a dot file).
Extname(p) ==
    IF Len(p) >= 2 /\ p[Len(p)] \in Extensions /\ p[Len(p) - 1] # "/"
    THEN p[Len(p)] ELSE ""

\* path.basename(p, path.extname(p)) of a path <<directory, "/", name, ext>>.
Basename(p) == p[Len(p) - 1]

\* LUT files the process may read (fs.promises.access with R_OK succeeds).
ReadableLuts == {<<"a", ".cube">>, <<"a", ".CUBE">>, <<"a", ".txt">>}

\* A faulty normalizeLutPath that tests the length before trimming.
normalizeLutPathUntrimmed(value) ==
    IF value.t # "string" THEN None
    ELSE IF Len(value.v) > 0 THEN Some(value.v) ELSE None

\* typeof value === 'string', then value.trim(), or null when nothing is left.
normalizeLutPath(value) ==
    IF value.t # "string" THEN None
    ELSE IF Len(Trim(value.v)) > 0 THEN Some(Trim(value.v)) ELSE None

\* [ok, path, error]: the resolved path (None for no LUT) or the error thrown.
resolveLutPath(lutPath) ==
    LET normalizedPath == normalizeLutPath(lutPath)
    IN  IF normalizedPath = None THEN [ok |-> TRUE, path |-> None, error |-> ""]
        ELSE IF ToLowerCase(Extname(normalizedPath[1])) # ".cube"
        THEN [ok |-> FALSE, path |-> None,
              error |-> "Only .cube LUT files are supported"]
        ELSE IF normalizedPath[1] \notin ReadableLuts
        THEN [ok |-> FALSE, path |-> None, error |-> "LUT file is not readable"]
        ELSE [ok |-> TRUE, path |-> normalizedPath, error |-> ""]

\* A faulty progressJobId that accepts every string.
ProgressJobIdAnyString(jobId) ==
    IF jobId.t = "string" THEN Some(jobId.v) ELSE None

\* typeof jobId === 'string' && jobId ? jobId : null
ProgressJobId(jobId) ==
    IF jobId.t = "string" /\ jobId.v # "" THEN Some(jobId.v) ELSE None

EXPORT_PRIMARY_X264_PRESET == "fast"

EXPORT_FALLBACK_X264_PRESET == "medium"

createSoftwareExportEncoder(preset) == <<"libx264", preset>>

getExportEncoderAttempts(p) ==
    LET softwarePrimary  == createSoftwareExportEncoder(EXPORT_PRIMARY_X264_PRESET)
        softwareFallback == createSoftwareExportEncoder(EXPORT_FALLBACK_X264_PRESET)
        hardware == IF p = "win32"
                    THEN << <<"h264_nvenc">>, <<"h264_qsv">>, <<"h264_amf">> >>
                    ELSE IF p = "darwin" THEN << <<"h264_videotoolbox">> >>
                    ELSE <<>>
    IN  hardware \o <<softwarePrimary>>
        \o (IF softwareFallback # softwarePrimary THEN <<softwareFallback>> ELSE <<>>)

PreviewEncoderAttempts(p) ==
    IF p = "win32"
    THEN << <<"h264_nvenc">>, <<"h264_qsv">>, <<"h264_amf">>, <<"libx264">> >>
    ELSE << <<"libx264">> >>

\* parseTimemarkToSeconds of a timemark <<hours, minutes, seconds>>; a text
\* that does not match the pattern (such as "N/A") is <<>>.
parseTimemarkToSeconds(timemark) ==
    IF timemark = <<>> THEN None
    ELSE Some(timemark[1] * 3600 + timemark[2] * 60 + timemark[3])

\* What an ffmpeg 'progress' event may carry: a percent, or none with a
\* timemark.  The first four clamp to 0 or 100 for a 2-second source.
ProgressEventList ==
    <<[percent |-> JsNumber(-20), timemark |-> <<0, 0, 1>>],
      [percent |-> JsNumber(250), timemark |-> <<0, 0, 1>>],
      [percent |-> JsUndefined, timemark |-> <<0, 0, 3>>],
      [percent |-> JsNaN, timemark |-> <<>>],
      [percent |-> JsNumber(50), timemark |-> <<0, 0, 1>>],
      [percent |-> JsNumber(100), timemark |-> <<>>],
      [percent |-> JsNaN, timemark |-> <<0, 0, 1>>]>>

EdgeProgressEvents == {ProgressEventList[j] : j \in 1..4}

ProgressEvents == {ProgressEventList[j] : j \in 1..Len(ProgressEventList)}

\* The durations an attempt chain may be given: unknown, or seconds.
DurationList == <<None, Some(2), Some(-1)>>

\* A faulty clamp without the upper limit.
ClampIntBelow(n) == IF n < 0 THEN 0 ELSE n

\* Math.min(100, Math.max(0, n)) of an integer-valued number.
ClampInt(n) == IF n < 0 THEN 0 ELSE IF n > 100 THEN 100 ELSE n

\* The 'progress' handler of an attempt: the value passed to onProgress, or
\* None when the handler makes no call.  durationSec is None (null) or an
\* integer number of seconds.
ProgressPercent(progress, duration) ==
    LET fromEngine == progress.percent.t = "number"
        processedSeconds == parseTimemarkToSeconds(progress.timemark)
        derive == /\ ~fromEngine
                  /\ duration # None
                  /\ duration[1] > 0
                  /\ processedSeconds # None
    IN  IF fromEngine THEN Some(FromInt(ClampInt(progress.percent.v)))
        ELSE IF derive
        THEN Some(MinD(D100, MaxD(Zero,
                 MulD(DivD(FromInt(processedSeconds[1]), duration[1]), D100))))
        ELSE None

\* The arithmetic of the handlers is evaluated once per argument and kept
\* in tuples: TupleOf(f, lo, hi) is <<f[lo], ..., f[hi]>>.
RECURSIVE TupleOf(_, _, _)
TupleOf(f, lo, hi) ==
    IF lo > hi THEN <<>>
    ELSE IF lo = hi THEN <<f[lo]>>
    ELSE TupleOf(f, lo, (lo + hi) \div 2) \o TupleOf(f, ((lo + hi) \div 2) + 1, hi)

IndexOf(seq, x) == CHOOSE j \in 1..Len(seq) : seq[j] = x

ProgressPercentTable ==
    TupleOf([a \in 1..Len(ProgressEventList) |->
                TupleOf([b \in 1..Len(DurationList) |->
                            ProgressPercent(ProgressEventList[a], DurationList[b])],
                        1, Len(DurationList))],
            1, Len(ProgressEventList))

ProgressPercentOf(progress, duration) ==
    ProgressPercentTable[IndexOf(ProgressEventList, progress)][IndexOf(DurationList, duration)]

\* Every value an attempt can pass to onProgress, and the initial maximum.
SampleList == <<Zero, FromInt(50), D100>>


EmptyProbeInfo == [durationSec |-> None, stream |-> None]

\* clipIndex.toString().padStart(2, '0'): the decimal digits, at least two.
DigitChar(d) == <<"0", "1", "2", "3", "4", "5", "6", "7", "8", "9">>[d + 1]

RECURSIVE Digits(_)
Digits(n) == IF n < 10 THEN <<DigitChar(n)>> ELSE Digits(n \div 10) \o <<DigitChar(n % 10)>>

PadStart2(n) == IF n < 10 THEN <<"0">> \o Digits(n) ELSE Digits(n)

\* The candidate of buildUniqueOutputPath for a suffix.
\* A faulty candidate name whose numeric suffixes start at 1.
CandidatePathFromOne(outputDir, baseName, extension, suffix) ==
    IF suffix = 1 THEN <<outputDir, "/">> \o baseName \o <<extension>>
    ELSE <<outputDir, "/">> \o baseName \o <<"_">> \o Digits(suffix - 1) \o <<extension>>

CandidatePath(outputDir, baseName, extension, suffix) ==
    IF suffix = 1 THEN <<outputDir, "/">> \o baseName \o <<extension>>
    ELSE <<outputDir, "/">> \o baseName \o <<"_">> \o Digits(suffix) \o <<extension>>

\* A faulty buildUniqueOutputPath that settles for the last candidate
\* instead of throwing.
buildOutputPathOrLast(fileSet, outputDir, baseName, extension) ==
    IF \E suffix \in 1..(SuffixLimit - 1) :
           CandidatePath(outputDir, baseName, extension, suffix) \notin fileSet
    THEN Some(CandidatePath(outputDir, baseName, extension,
                 CHOOSE suffix \in 1..(SuffixLimit - 1) :
                    /\ CandidatePath(outputDir, baseName, extension, suffix) \notin fileSet
                    /\ \A t \in 1..(suffix - 1) :
                          CandidatePath(outputDir, baseName, extension, t) \in fileSet))
    ELSE Some(CandidatePath(outputDir, baseName, extension, SuffixLimit - 1))

\* buildUniqueOutputPath: the first candidate that does not exist, or None
\* for the throw after the last suffix (the loop runs while suffix <
\* SuffixLimit).
buildUniqueOutputPath(fileSet, outputDir, baseName, extension) ==
    IF \A suffix \in 1..(SuffixLimit - 1) :
           CandidatePath(outputDir, baseName, extension, suffix) \in fileSet
    THEN None
    ELSE Some(CandidatePath(outputDir, baseName, extension,
                 CHOOSE suffix \in 1..(SuffixLimit - 1) :
                    /\ CandidatePath(outputDir, baseName, extension, suffix) \notin fileSet
                    /\ \A t \in 1..(suffix - 1) :
                          CandidatePath(outputDir, baseName, extension, t) \in fileSet))

\* The output directory before any call: empty, or holding every name
\* buildUniqueOutputPath can give to video.mp4.
TakenNames == {CandidatePath("out", <<"video", "_lut">>, ".mov", suffix) :
                 suffix \in 1..(SuffixLimit - 1)}

\* No second call is being served.
NoRival == [handler |-> "none", pc |-> "idle", outputPath |-> <<>>, index |-> 0,
            outcome |-> "none"]

Init ==
    /\ platform \in Platforms
    /\ files \in {{}, TakenNames}
    /\ madeDirs = {}
    /\ previewProxyPaths = {}
    /\ handler = "none"
    /\ pc = "idle"
    /\ args = [jobId |-> JsUndefined]
    /\ probeInfo = EmptyProbeInfo
    /\ probeSpawns = 0
    /\ i = 0
    /\ results = <<>>
    /\ lastReportedProgress = -1
    /\ maxSegmentPercent = Zero
    /\ events = <<>>
    /\ response = None
    /\ encoderAttempts = <<>>
    /\ index = 0
    /\ lastErrorMessage = ""
    /\ outputPath = <<>>
    /\ durationSec = None
    /\ attempts = <<>>
    /\ lastFailure = ""
    /\ lastCleanup = "none"
    /\ fileStats = [f \in ProbeFiles |-> 1]
    /\ probeInfoCache = <<>>
    /\ cacheWrites = {}
    /\ probe = None
    /\ probeLog = <<>>
    /\ unlinks = {}
    /\ quit = "no"
    /\ cleanupResult = None
    /\ rival = NoRival

(***************************************************************************)
(* The export progress emitter (emitExportProgress of both batch handlers) *)
(* acts on the pair [events, last]: the messages sent so far and           *)
(* lastReportedProgress.                                                   *)
(***************************************************************************)
Emitter == [events |-> events, last |-> lastReportedProgress]

\* Math.round(Math.min(100, Math.max(0, percent)))
RoundedPercent(percent) == MathRound(MinD(D100, MaxD(Zero, percent)))

Max1(n) == IF n > 1 THEN n ELSE 1

\* (k / Math.max(n, 1)) * 100
ItemStartPercent(k, n) == MulD(DivD(FromInt(k), Max1(n)), D100)

\* 100 / Math.max(n, 1)
ItemWeight(n) == DivD(D100, Max1(n))

\* segmentStartPercent + (maxSegmentPercent / 100) * segmentWeight
OverallPercent(k, n, maxPercent) ==
    AddD(ItemStartPercent(k, n), MulD(DivD(maxPercent, 100), ItemWeight(n)))

\* The tables hold batches of up to MaxItems items, and of LongBatch items.
ItemStartPercentRow(n) == TupleOf([k \in 0..n |-> ItemStartPercent(k, n)], 0, n)

ItemStartPercentTable ==
    TupleOf([n \in 0..MaxItems |-> ItemStartPercentRow(n)], 0, MaxItems)

ItemStartPercentLong == ItemStartPercentRow(LongBatch)

ItemStartPercentOf(k, n) ==
    IF n <= MaxItems THEN ItemStartPercentTable[n + 1][k + 1] ELSE ItemStartPercentLong[k + 1]

OverallPercentRow(n) ==
    TupleOf([k \in 0..n |->
                TupleOf([j \in 1..Len(SampleList) |-> OverallPercent(k, n, SampleList[j])],
                        1, Len(SampleList))],
            0, n)

OverallPercentTable ==
    TupleOf([n \in 0..MaxItems |-> OverallPercentRow(n)], 0, MaxItems)

OverallPercentLong == OverallPercentRow(LongBatch)

OverallPercentOf(k, n, maxPercent) ==
    IF n <= MaxItems THEN OverallPercentTable[n + 1][k + 1][IndexOf(SampleList, maxPercent)]
    ELSE OverallPercentLong[k + 1][IndexOf(SampleList, maxPercent)]

\* A faulty emitter that passes the two counts in the wrong order.
emitExportProgressSwapped(st, phase, percent, currentClip, totalClips) ==
    LET progressJobId  == ProgressJobId(args.jobId)
        rounded        == RoundedPercent(percent)
    IN  IF progressJobId = None THEN st
        ELSE IF phase = "progress" /\ rounded = st.last THEN st
        ELSE [events |-> Append(st.events,
                                [channel     |-> "batch-export-progress",
                                 jobId       |-> progressJobId[1],
                                 phase       |-> phase,
                                 percent     |-> rounded,
                                 currentClip |-> totalClips,
                                 totalClips  |-> currentClip]),
              last   |-> IF phase = "progress" THEN rounded ELSE st.last]

emitExportProgress(st, phase, percent, currentClip, totalClips) ==
    LET progressJobId  == ProgressJobId(args.jobId)
        rounded        == RoundedPercent(percent)
    IN  IF progressJobId = None THEN st
        ELSE IF phase = "progress" /\ rounded = st.last THEN st
        ELSE [events |-> Append(st.events,
                                [channel     |-> "batch-export-progress",
                                 jobId       |-> progressJobId[1],
                                 phase       |-> phase,
                                 percent     |-> rounded,
                                 currentClip |-> currentClip,
                                 totalClips  |-> totalClips]),
              last   |-> IF phase = "progress" THEN rounded ELSE st.last]

\* path.join(outputDir, `${baseName}_clip_${index}.mov`)
ClipOutputPath(outputDir, baseName, clipIndex) ==
    <<outputDir, "/", baseName, "_clip_">> \o PadStart2(clipIndex) \o <<".mov">>

\* The preview emitter (emitProgress of prepare-preview).
emitProgress(st, phase, percent) ==
    LET progressJobId  == ProgressJobId(args.jobId)
        rounded        == RoundedPercent(percent)
    IN  IF progressJobId = None THEN st
        ELSE IF phase = "progress" /\ rounded = st.last THEN st
        ELSE [events |-> Append(st.events,
                                [channel |-> "preview-prepare-progress",
                                 jobId   |-> progressJobId[1],
                                 phase   |-> phase,
                                 percent |-> rounded]),
              last   |-> IF phase = "progress" THEN rounded ELSE st.last]

\* A faulty removeFileIfExists that never unlinks.
removeFileNever(fileSet, filePath, unlinkFails) ==
    [files |-> fileSet,
     outcome |-> IF filePath \notin fileSet THEN "enoent"
                 ELSE IF unlinkFails THEN "failed" ELSE "removed"]

\* removeFileIfExists: [files, outcome] after fs.promises.unlink, which may
\* fail on an existing file (the error is logged and swallowed).
removeFileIfExists(fileSet, filePath, unlinkFails) ==
    IF filePath \notin fileSet THEN [files |-> fileSet, outcome |-> "enoent"]
    ELSE IF unlinkFails THEN [files |-> fileSet, outcome |-> "failed"]
    ELSE [files |-> fileSet \ {filePath}, outcome |-> "removed"]

(***************************************************************************)
(* The attempt chain: the for loop of exportSingleClip, repeated in        *)
(* exportSingleFullVideo and createPreviewProxy.                           *)
(***************************************************************************)
NewAttempt(encoder) == [encoder |-> encoder, outcome |-> "running"]

\* Where a chain waits after spawning an encoder: createPreviewProxy listens
\* for the 'start' event (main.ts:524), the export chains do not.
SpawnedPc(h) == IF h = "prepare-preview" THEN "spawned" ELSE "running"

\* A faulty reading of the loop's candidate: always the head of the list.
CandidateAtHead(candidates, k) == candidates[1]

\* A faulty reading of the loop's candidate: the first candidate is retried
\* once before the second is tried.
CandidateAtRetry(candidates, k) == candidates[IF k = 0 THEN 1 ELSE k]

\* const encoder = encoderAttempts[index]
CandidateAt(candidates, k) == candidates[k + 1]

\* The chain's locals at entry, and its first encoder subprocess.
ChainStart(candidates, path, duration, initialMessage) ==
    /\ encoderAttempts' = candidates
    /\ index' = 0
    /\ lastErrorMessage' = initialMessage
    /\ outputPath' = path
    /\ durationSec' = duration
    /\ attempts' = <<NewAttempt(CandidateAt(candidates, 0))>>
    /\ lastFailure' = ""
    /\ lastCleanup' = "none"

SetOutcome(log, outcome) == [log EXCEPT ![Len(log)].outcome = outcome]

\* ffmpeg's 'end' event: the output is complete and the chain returns.
AttemptEnd ==
    /\ pc = "running"
    /\ files' = files \cup {outputPath}
    /\ attempts' = SetOutcome(attempts, "succeeded")
    /\ pc' = "returned"
    /\ UNCHANGED <<platform, madeDirs, previewProxyPaths, handler, args, probeInfo,
                   probeSpawns, response, batchVars, encoderAttempts, index,
                   lastErrorMessage, outputPath, durationSec, lastFailure, lastCleanup>>
    /\ UNCHANGED <<cacheVars, quitVars>>

\* A faulty catch clause: the message of the first failure is kept.
KeepFirstErrorMessage(current, message) ==
    IF current \in ErrorMessages THEN current ELSE message

\* The catch clause's first statement: lastErrorMessage = getErrorMessage(error).
NextErrorMessage(current, message) == message

\* ffmpeg's 'error' event, with or without a partial output left on disk.
AttemptError(message, partial) ==
    /\ pc \in {"spawned", "running"}
    /\ files' = IF partial THEN files \cup {outputPath} ELSE files
    /\ attempts' = SetOutcome(attempts, "failed")
    /\ lastErrorMessage' = NextErrorMessage(lastErrorMessage, message)
    /\ lastFailure' = message
    /\ lastCleanup' = "none"
    /\ pc' = "unlink"
    /\ UNCHANGED <<platform, madeDirs, previewProxyPaths, handler, args, probeInfo,
                   probeSpawns, response, batchVars, encoderAttempts, index,
                   outputPath, durationSec>>
    /\ UNCHANGED <<cacheVars, quitVars>>

\* The loop's exit test after a failed attempt.
HasNextCandidate(k, candidates) == k < Len(candidates) - 1

\* The rest of the catch clause: removeFileIfExists, then the next
\* candidate's subprocess or, after the last candidate, the throw.
AttemptCleanup(unlinkFails) ==
    /\ pc = "unlink"
    /\ LET removed == removeFileIfExists(files, outputPath, unlinkFails)
       IN  /\ files' = removed.files
           /\ lastCleanup' = removed.outcome
    /\ IF HasNextCandidate(index, encoderAttempts)
       THEN /\ index' = index + 1
            /\ attempts' = Append(attempts, NewAttempt(CandidateAt(encoderAttempts, index + 1)))
            /\ pc' = SpawnedPc(handler)
       ELSE /\ pc' = "thrown"
            /\ UNCHANGED <<index, attempts>>
    /\ UNCHANGED <<platform, madeDirs, previewProxyPaths, handler, args, probeInfo,
                   probeSpawns, response, batchVars, encoderAttempts,
                   lastErrorMessage, outputPath, durationSec, lastFailure>>
    /\ UNCHANGED <<cacheVars, quitVars>>


(***************************************************************************)
(* The probe, as far as the handlers use it: it may fail to spawn, and the *)
(* diagnostic text may hold nothing the parser finds, or the duration and  *)
(* an HEVC video stream.                                                   *)
(***************************************************************************)
ProbeOutcomes ==
    {[spawnError |-> TRUE, durationSec |-> None, stream |-> None],
     [spawnError |-> FALSE, durationSec |-> None, stream |-> None],
     [spawnError |-> FALSE, durationSec |-> Some(2),
      stream |-> Some([codec_name |-> "hevc", profile |-> "main", pix_fmt |-> "yuv420p"])]}

\* A faulty catch clause that suggests the compatible mode after a failed
\* probe.
probeInfoAssumedHevc(outcome) ==
    IF outcome.spawnError
    THEN [durationSec |-> None,
          stream |-> Some([codec_name |-> "hevc", profile |-> "", pix_fmt |-> ""])]
    ELSE [durationSec |-> outcome.durationSec, stream |-> outcome.stream]

\* probeSourceInfoWithBitrates: a spawn error is logged and the empty info used.
probeSourceInfoWithBitrates(outcome) ==
    IF outcome.spawnError THEN EmptyProbeInfo
    ELSE [durationSec |-> outcome.durationSec, stream |-> outcome.stream]

\* Lines 323-331; a profile or pixel format that includes '10' is one of the
\* two listed.
shouldUsePreviewProxy(stream) ==
    /\ stream # None
    /\ \/ stream[1].codec_name \in {"hevc", "h265"}
       \/ stream[1].profile \in {"main 10"}
       \/ stream[1].pix_fmt \in {"yuv420p10le"}

Rejected(message) == Some([kind |-> "rejected", error |-> message])

Returned(value) == Some([kind |-> "returned", value |-> value])

(***************************************************************************)
(* ipcMain.handle('process-batch')                                         *)
(***************************************************************************)
\* Lines 970-973: the call and the LUT validation.
CallProcessBatch(a) ==
    /\ handler = "none"
    /\ handler' = "process-batch"
    /\ args' = a
    /\ LET lut == resolveLutPath(a.lutPath)
       IN  IF lut.ok
           THEN pc' = "probe" /\ UNCHANGED response
           ELSE pc' = "done" /\ response' = Rejected(lut.error)
    /\ UNCHANGED <<envVars, probeInfo, probeSpawns, batchVars, chainVars>>
    /\ UNCHANGED <<cacheVars, quitVars>>

\* Lines 974-977: the bitrate probe, shared by all segments.
BatchProbe(outcome) ==
    /\ handler = "process-batch"
    /\ pc = "probe"
    /\ probeSpawns' = probeSpawns + 1
    /\ pc' = "start"
    /\ UNCHANGED <<envVars, handler, args, probeInfo, response, batchVars, chainVars>>
    /\ UNCHANGED <<cacheVars, quitVars>>

\* Lines 981-1009: the start event and the output directory.
BatchStart(mkdirFails) ==
    /\ handler = "process-batch"
    /\ pc = "start"
    /\ LET st == emitExportProgress(Emitter, "start", Zero, 0, Len(args.segments))
       IN  /\ events' = st.events
           /\ lastReportedProgress' = st.last
    /\ IF mkdirFails
       THEN /\ pc' = "done"
            /\ response' = Rejected("EACCES: mkdir")
            /\ UNCHANGED madeDirs
       ELSE /\ pc' = "item"
            /\ madeDirs' = madeDirs \cup {args.outputDir}
            /\ UNCHANGED response
    /\ UNCHANGED <<platform, files, previewProxyPaths, handler, args, probeInfo,
                   probeSpawns, i, results, maxSegmentPercent, chainVars>>
    /\ UNCHANGED <<cacheVars, quitVars>>

\* A faulty loop that does not await the export of an item.
ExportNotAwaited(p) == p \in {"item", "running"}

\* await exportSingleClip / await exportSingleFullVideo: the loop goes on
\* only after the item's export has settled and its result is recorded.
ExportAwaited(p) == p = "item"

\* A faulty loop test that stops one item early.
HasNextItemButLast(k, n) == k < n - 1

\* The loop's test: another segment is processed while i < segments.length.
HasNextItem(k, n) == k < n

\* Lines 1011-1043: one iteration up to the first encoder subprocess of
\* exportSingleClip.
BatchItem ==
    /\ handler = "process-batch"
    /\ ExportAwaited(pc)
    /\ HasNextItem(i, Len(args.segments))
    /\ LET seg       == args.segments[i + 1]
           duration  == seg.end - seg.start
           clipIndex == i + 1
           n         == Len(args.segments)
           tempVidPath == ClipOutputPath(args.outputDir, Basename(args.filePath), clipIndex)
           st == emitExportProgress(Emitter, "progress", ItemStartPercentOf(i, n),
                                    clipIndex, n)
       IN  /\ events' = st.events
           /\ lastReportedProgress' = st.last
           /\ maxSegmentPercent' = Zero
           /\ ChainStart(getExportEncoderAttempts(platform), tempVidPath,
                         Some(duration), "Failed to export clip")
    /\ pc' = "running"
    /\ UNCHANGED <<envVars, handler, args, probeInfo, probeSpawns, response, i, results>>
    /\ UNCHANGED <<cacheVars, quitVars>>

\* Lines 604-616 and 1027-1031: a 'progress' event of the running encoder.
ClipProgress(progress) ==
    /\ handler = "process-batch"
    /\ pc = "running"
    /\ LET segmentPercent == ProgressPercentOf(progress, durationSec)
           n       == Len(args.segments)
           newMax  == MaxD(maxSegmentPercent, MinD(D100, MaxD(Zero, segmentPercent[1])))
           st == emitExportProgress(Emitter, "progress",
                                    OverallPercentOf(i, n, newMax), i + 1, n)
       IN  IF segmentPercent = None
           THEN UNCHANGED <<maxSegmentPercent, events, lastReportedProgress>>
           ELSE /\ maxSegmentPercent' = newMax
                /\ events' = st.events
                /\ lastReportedProgress' = st.last
    /\ UNCHANGED <<envVars, callVars, i, results, chainVars>>
    /\ UNCHANGED <<cacheVars, quitVars>>

SuccessResult(id, path) == [id |-> id, success |-> TRUE, path |-> path]

FailureResult(id, message) == [id |-> id, success |-> FALSE, error |-> message]

\* Lines 1045-1046: exportSingleClip returned.
BatchItemDone ==
    /\ handler = "process-batch"
    /\ pc = "returned"
    /\ LET n  == Len(args.segments)
           st == emitExportProgress(Emitter, "progress", ItemStartPercentOf(i + 1, n),
                                    i + 1, n)
       IN  /\ events' = st.events
           /\ lastReportedProgress' = st.last
    /\ results' = Append(results, SuccessResult(args.segments[i + 1].id, outputPath))
    /\ i' = i + 1
    /\ pc' = "item"
    /\ UNCHANGED <<envVars, handler, args, probeInfo, probeSpawns, response,
                   maxSegmentPercent, chainVars>>
    /\ UNCHANGED <<cacheVars, quitVars>>

\* Lines 1047-1053: exportSingleClip threw.
BatchItemFailed(unlinkFails) ==
    /\ handler = "process-batch"
    /\ pc = "thrown"
    /\ files' = removeFileIfExists(files, outputPath, unlinkFails).files
    /\ LET n  == Len(args.segments)
           st == emitExportProgress(Emitter, "progress", ItemStartPercentOf(i + 1, n),
                                    i + 1, n)
       IN  /\ events' = st.events
           /\ lastReportedProgress' = st.last
    /\ results' = Append(results, FailureResult(args.segments[i + 1].id, lastErrorMessage))
    /\ i' = i + 1
    /\ pc' = "item"
    /\ UNCHANGED <<platform, madeDirs, previewProxyPaths, handler, args, probeInfo,
                   probeSpawns, response, maxSegmentPercent, chainVars>>
    /\ UNCHANGED <<cacheVars, quitVars>>

\* Lines 1056-1057: the done event and the result.
BatchFinish ==
    /\ handler = "process-batch"
    /\ pc = "item"
    /\ ~HasNextItem(i, Len(args.segments))
    /\ LET n  == Len(args.segments)
           st == emitExportProgress(Emitter, "done", D100, n, n)
       IN  /\ events' = st.events
           /\ lastReportedProgress' = st.last
    /\ response' = Returned([success |-> TRUE, results |-> results])
    /\ pc' = "done"
    /\ UNCHANGED <<envVars, handler, args, probeInfo, probeSpawns, i, results,
                   maxSegmentPercent, chainVars>>
    /\ UNCHANGED <<cacheVars, quitVars>>

(***************************************************************************)
(* ipcMain.handle('process-lut-full-batch')                                *)
(***************************************************************************)
JsNull == [t |-> "null"]

JsArray(list) == [t |-> "array", v |-> list]

JsObject(id, filePath) == [t |-> "object", id |-> id, filePath |-> filePath]

\* The filter of lines 1068-1074.
IsValidVideo(video) ==
    /\ video.t = "object"
    /\ video.id.t = "string"
    /\ video.id.v # ""
    /\ video.filePath.t = "string"
    /\ video.filePath.v # <<>>

normalizedVideos(videos) ==
    IF videos.t = "array" THEN SelectSeq(videos.v, IsValidVideo) ELSE <<>>

\* Lines 1060-1064: the call and the LUT validation.
CallLutBatch(a) ==
    /\ handler = "none"
    /\ handler' = "process-lut-full-batch"
    /\ args' = a
    /\ LET lut == resolveLutPath(a.lutPath)
       IN  IF ~lut.ok
           THEN pc' = "done" /\ response' = Rejected(lut.error)
           ELSE IF lut.path = None
           THEN pc' = "done" /\ response' = Returned([success |-> FALSE, results |-> <<>>])
           ELSE pc' = "start" /\ UNCHANGED response
    /\ UNCHANGED <<envVars, probeInfo, probeSpawns, batchVars, chainVars>>
    /\ UNCHANGED <<cacheVars, quitVars>>

\* Lines 1104-1105: the start event and the output directory.
LutStart(mkdirFails) ==
    /\ handler = "process-lut-full-batch"
    /\ pc = "start"
    /\ LET st == emitExportProgress(Emitter, "start", Zero, 0,
                                    Len(normalizedVideos(args.videos)))
       IN  /\ events' = st.events
           /\ lastReportedProgress' = st.last
    /\ IF mkdirFails
       THEN /\ pc' = "done"
            /\ response' = Rejected("EACCES: mkdir")
            /\ UNCHANGED madeDirs
       ELSE /\ pc' = "item"
            /\ madeDirs' = madeDirs \cup {args.outputDir}
            /\ UNCHANGED response
    /\ UNCHANGED <<platform, files, previewProxyPaths, handler, args, probeInfo,
                   probeSpawns, i, results, maxSegmentPercent, chainVars>>
    /\ UNCHANGED <<cacheVars, quitVars>>

\* Lines 1107-1120: one iteration up to the first encoder subprocess of
\* exportSingleFullVideo: the probe and the output name, whose allocation
\* may throw into the iteration's catch clause (lines 1141-1146).
LutItem(outcome) ==
    /\ handler = "process-lut-full-batch"
    /\ ExportAwaited(pc)
    /\ HasNextItem(i, Len(normalizedVideos(args.videos)))
    /\ probeSpawns' = probeSpawns + 1
    /\ probeInfo' = probeSourceInfoWithBitrates(outcome)
    /\ LET videos   == normalizedVideos(args.videos)
           entry    == videos[i + 1]
           n        == Len(videos)
           baseName == <<Basename(entry.filePath.v), "_lut">>
           allocated == buildUniqueOutputPath(files, args.outputDir, baseName, ".mov")
           st == emitExportProgress(Emitter, "progress", ItemStartPercentOf(i + 1, n),
                                    i + 1, n)
       IN  IF allocated = None
           THEN /\ events' = st.events
                /\ lastReportedProgress' = st.last
                /\ results' = Append(results, FailureResult(entry.id.v,
                                        "Failed to allocate output file path"))
                /\ i' = i + 1
                /\ pc' = "item"
                /\ UNCHANGED <<maxSegmentPercent, chainVars>>
           ELSE /\ maxSegmentPercent' = Zero
                /\ ChainStart(getExportEncoderAttempts(platform), allocated[1],
                              probeInfo'.durationSec, "Failed to export full video")
                /\ pc' = "running"
                /\ UNCHANGED <<events, lastReportedProgress, results, i>>
    /\ UNCHANGED <<envVars, handler, args, response>>
    /\ UNCHANGED <<cacheVars, quitVars>>

\* Lines 680-692 and 1122-1126: a 'progress' event of the running encoder.
VideoProgress(progress) ==
    /\ handler = "process-lut-full-batch"
    /\ pc = "running"
    /\ LET videoPercent == ProgressPercentOf(progress, durationSec)
           n       == Len(normalizedVideos(args.videos))
           newMax  == MaxD(maxSegmentPercent, MinD(D100, MaxD(Zero, videoPercent[1])))
           st == emitExportProgress(Emitter, "progress", OverallPercentOf(i, n, newMax),
                                    i + 1, n)
       IN  IF videoPercent = None
           THEN UNCHANGED <<maxSegmentPercent, events, lastReportedProgress>>
           ELSE /\ maxSegmentPercent' = newMax
                /\ events' = st.events
                /\ lastReportedProgress' = st.last
    /\ UNCHANGED <<envVars, callVars, i, results, chainVars>>
    /\ UNCHANGED <<cacheVars, quitVars>>

\* Lines 1139-1140: exportSingleFullVideo returned.
LutItemDone ==
    /\ handler = "process-lut-full-batch"
    /\ pc = "returned"
    /\ LET videos == normalizedVideos(args.videos)
           st == emitExportProgress(Emitter, "progress",
                                    ItemStartPercentOf(i + 1, Len(videos)), i + 1, Len(videos))
       IN  /\ events' = st.events
           /\ lastReportedProgress' = st.last
           /\ results' = Append(results, SuccessResult(videos[i + 1].id.v, outputPath))
    /\ i' = i + 1
    /\ pc' = "item"
    /\ UNCHANGED <<envVars, handler, args, probeInfo, probeSpawns, response,
                   maxSegmentPercent, chainVars>>
    /\ UNCHANGED <<cacheVars, quitVars>>

\* Lines 1141-1146: exportSingleFullVideo threw.
LutItemFailed ==
    /\ handler = "process-lut-full-batch"
    /\ pc = "thrown"
    /\ LET videos == normalizedVideos(args.videos)
           st == emitExportProgress(Emitter, "progress",
                                    ItemStartPercentOf(i + 1, Len(videos)), i + 1, Len(videos))
       IN  /\ events' = st.events
           /\ lastReportedProgress' = st.last
           /\ results' = Append(results, FailureResult(videos[i + 1].id.v, lastErrorMessage))
    /\ i' = i + 1
    /\ pc' = "item"
    /\ UNCHANGED <<envVars, handler, args, probeInfo, probeSpawns, response,
                   maxSegmentPercent, chainVars>>
    /\ UNCHANGED <<cacheVars, quitVars>>

\* Lines 1149-1150: the done event and the result.
LutFinish ==
    /\ handler = "process-lut-full-batch"
    /\ pc = "item"
    /\ ~HasNextItem(i, Len(normalizedVideos(args.videos)))
    /\ LET n  == Len(normalizedVideos(args.videos))
           st == emitExportProgress(Emitter, "done", D100, n, n)
       IN  /\ events' = st.events
           /\ lastReportedProgress' = st.last
    /\ response' = Returned([success |-> TRUE, results |-> results])
    /\ pc' = "done"
    /\ UNCHANGED <<envVars, handler, args, probeInfo, probeSpawns, i, results,
                   maxSegmentPercent, chainVars>>
    /\ UNCHANGED <<cacheVars, quitVars>>

(***************************************************************************)
(* ipcMain.handle('prepare-preview') and createPreviewProxy                *)
(***************************************************************************)
PreviewFailure(message) ==
    Returned([success |-> FALSE, useProxy |-> FALSE, error |-> message])

\* Date.now() at the call of createPreviewProxy.
Now == "1700000000000"

\* Date.now() a millisecond later.
Later == "1700000000001"

\* path.join(previewDir, `${baseName}_preview_${Date.now()}.mp4`)
ProxyPathAt(filePath, now) == <<"tmp", "/", Basename(filePath), "_preview_", now, ".mp4">>

ProxyPath(filePath) == ProxyPathAt(filePath, Now)

JsBoolean(b) == [t |-> "boolean", v |-> b]

\* A faulty parameter default: forceProxy = true.
forceProxyOrTrue(value) == IF value.t = "undefined" THEN TRUE ELSE value.v

\* The parameter default of the handler: forceProxy = false.
forceProxyOrDefault(value) == IF value.t = "undefined" THEN FALSE ELSE value.v

\* pathToFileURL(filePath).toString()
pathToFileURL(filePath) == <<"file://">> \o filePath

\* Lines 876-879: the call and the file path check.
CallPreparePreview(a) ==
    /\ handler = "none"
    /\ handler' = "prepare-preview"
    /\ args' = a
    /\ IF a.filePath.t # "string" \/ a.filePath.v = <<>>
       THEN pc' = "done" /\ response' = PreviewFailure("Invalid file path")
       ELSE pc' = "probe" /\ UNCHANGED response
    /\ UNCHANGED <<envVars, probeInfo, probeSpawns, batchVars, chainVars>>
    /\ UNCHANGED <<cacheVars, quitVars>>

\* Lines 882-932: the probe (a failure is logged), the direct answer, the
\* LUT validation and the start event.
PreviewProbe(outcome) ==
    /\ handler = "prepare-preview"
    /\ pc = "probe"
    /\ probeSpawns' = probeSpawns + 1
    /\ probeInfo' = probeSourceInfoWithBitrates(outcome)
    /\ LET lut == resolveLutPath(args.lutPath)
           st  == emitProgress(Emitter, "start", Zero)
       IN  IF ~forceProxyOrDefault(args.forceProxy)
           THEN /\ response' = Returned([success |-> TRUE, useProxy |-> FALSE,
                                         url |-> pathToFileURL(args.filePath.v),
                                         suggestCompatibleMode |->
                                             shouldUsePreviewProxy(probeInfo'.stream)])
                /\ pc' = "done"
                /\ UNCHANGED <<events, lastReportedProgress>>
           ELSE IF ~lut.ok
           THEN /\ response' = PreviewFailure(lut.error)
                /\ pc' = "done"
                /\ UNCHANGED <<events, lastReportedProgress>>
           ELSE /\ events' = st.events
                /\ lastReportedProgress' = st.last
                /\ pc' = "mkdir"
                /\ UNCHANGED response
    /\ UNCHANGED <<envVars, handler, args, i, results, maxSegmentPercent, chainVars>>
    /\ UNCHANGED <<cacheVars, quitVars>>

\* Lines 494-509: the preview directory and the first encoder subprocess.
PreviewMkdir(mkdirFails) ==
    /\ handler = "prepare-preview"
    /\ pc = "mkdir"
    /\ IF mkdirFails
       THEN /\ response' = PreviewFailure("EACCES: mkdir")
            /\ pc' = "done"
            /\ UNCHANGED <<madeDirs, chainVars>>
       ELSE /\ madeDirs' = madeDirs \cup {"tmp"}
            /\ ChainStart(PreviewEncoderAttempts(platform), ProxyPath(args.filePath.v),
                          probeInfo.durationSec, "Failed to build preview proxy")
            /\ pc' = SpawnedPc(handler)
            /\ UNCHANGED response
    /\ UNCHANGED <<platform, files, previewProxyPaths, handler, args, probeInfo,
                   probeSpawns, batchVars>>
    /\ UNCHANGED <<cacheVars, quitVars>>

\* A faulty report of an encoder's start under the phase of the job's start.
CommandStartPhaseStart == "start"

\* onProgress: (percent) => emitProgress('progress', percent)
CommandStartPhase == "progress"

\* Lines 524-526: the 'start' event of the encoder subprocess.
PreviewCommandStart ==
    /\ handler = "prepare-preview"
    /\ pc = "spawned"
    /\ LET st == emitProgress(Emitter, CommandStartPhase, Zero)
       IN  /\ events' = st.events
           /\ lastReportedProgress' = st.last
    /\ pc' = "running"
    /\ UNCHANGED <<envVars, handler, args, probeInfo, probeSpawns, response, i, results,
                   maxSegmentPercent, chainVars>>
    /\ UNCHANGED <<cacheVars, quitVars>>

\* Lines 527-540: a 'progress' event of the encoder subprocess.
PreviewProgress(progress) ==
    /\ handler = "prepare-preview"
    /\ pc = "running"
    /\ Len(events) < MaxPreviewEvents
    /\ LET percent == ProgressPercentOf(progress, durationSec)
           st == emitProgress(Emitter, "progress", percent[1])
       IN  IF percent = None
           THEN UNCHANGED <<events, lastReportedProgress>>
           ELSE /\ events' = st.events
                /\ lastReportedProgress' = st.last
    /\ UNCHANGED <<envVars, callVars, i, results, maxSegmentPercent, chainVars>>
    /\ UNCHANGED <<cacheVars, quitVars>>

\* A faulty registration that adds nothing.
RegisterNothing(paths, proxyPath) == paths

\* previewProxyPaths.add(proxyPath)
RegisterProxy(paths, proxyPath) == paths \cup {proxyPath}

\* Lines 544-545 and 939-947: the proxy is registered and returned.
PreviewDone ==
    /\ handler = "prepare-preview"
    /\ pc = "returned"
    /\ previewProxyPaths' = RegisterProxy(previewProxyPaths, outputPath)
    /\ LET st == emitProgress(Emitter, "done", D100)
       IN  /\ events' = st.events
           /\ lastReportedProgress' = st.last
    /\ response' = Returned([success |-> TRUE, useProxy |-> TRUE, path |-> outputPath,
                              url |-> pathToFileURL(outputPath),
                              suggestCompatibleMode |->
                                  shouldUsePreviewProxy(probeInfo.stream)])
    /\ pc' = "done"
    /\ UNCHANGED <<platform, files, madeDirs, handler, args, probeInfo, probeSpawns,
                   i, results, maxSegmentPercent, chainVars>>
    /\ UNCHANGED <<cacheVars, quitVars>>

\* Lines 948-955: createPreviewProxy threw.
PreviewFailed ==
    /\ handler = "prepare-preview"
    /\ pc = "thrown"
    /\ response' = PreviewFailure(lastErrorMessage)
    /\ pc' = "done"
    /\ UNCHANGED <<envVars, handler, args, probeInfo, probeSpawns, batchVars, chainVars>>
    /\ UNCHANGED <<cacheVars, quitVars>>

(***************************************************************************)
(* The probe cache: probeVideoInfo, readProbeCache and writeProbeCache.    *)
(* An entry is [key, stamp, info]: the file path, the size and mtime of    *)
(* the file when the entry was written, and the parsed probe output, which *)
(* is identified with the version of the file the inspection process read. *)
(***************************************************************************)
\* A faulty prune that deletes the newest key.
pruneProbeCacheNewest(cache) ==
    IF Len(cache) > ProbeCacheCapacity THEN SubSeq(cache, 1, ProbeCacheCapacity) ELSE cache

\* pruneProbeCacheIfNeeded: the oldest key is deleted while the cache is
\* over its capacity (an empty oldest key ends the loop).
RECURSIVE pruneProbeCacheIfNeeded(_)
pruneProbeCacheIfNeeded(cache) ==
    IF Len(cache) > ProbeCacheCapacity /\ Head(cache).key # <<>>
    THEN pruneProbeCacheIfNeeded(Tail(cache))
    ELSE cache

\* readProbeCache: the cached info, or None when stat throws, when there is
\* no entry, or when the entry's size or mtime differs.
readProbeCache(cache, stats, filePath) ==
    IF stats[filePath] = 0 THEN None
    ELSE IF \E j \in 1..Len(cache) :
                cache[j].key = filePath /\ cache[j].stamp = stats[filePath]
    THEN Some((CHOOSE e \in {cache[j] : j \in 1..Len(cache)} : e.key = filePath).info)
    ELSE None

\* writeProbeCache once its stat has completed: Map.set (an existing key
\* keeps its place, a new key is appended) and the prune; a failing stat is
\* ignored.
writeProbeCache(cache, stats, filePath, info) ==
    LET entry == [key |-> filePath, stamp |-> stats[filePath], info |-> info]
    IN  IF stats[filePath] = 0 THEN cache
        ELSE IF \E j \in 1..Len(cache) : cache[j].key = filePath
        THEN pruneProbeCacheIfNeeded(
                 [j \in 1..Len(cache) |-> IF cache[j].key = filePath THEN entry ELSE cache[j]])
        ELSE pruneProbeCacheIfNeeded(Append(cache, entry))

\* Lines 292-302: a call of probeVideoInfo, answered from the cache or by
\* spawning the inspection process.
ProbeCall(filePath) ==
    /\ probe = None
    /\ Len(probeLog) < MaxProbeCalls
    /\ LET cached == readProbeCache(probeInfoCache, fileStats, filePath)
       IN  /\ probe' = IF cached # None THEN None ELSE Some(filePath)
           /\ probeLog' = Append(probeLog,
                                 [file |-> filePath, stamp |-> fileStats[filePath],
                                  outcome |-> IF cached # None THEN "cached" ELSE "spawned"])
    /\ UNCHANGED <<envVars, callVars, batchVars, chainVars, fileStats, probeInfoCache,
                   cacheWrites, quitVars>>

\* Lines 315-319: the inspection process closes; writeProbeCache is called
\* without await, and the call resolves while the write waits for its stat.
ProbeClose ==
    /\ probe # None
    /\ cacheWrites' = cacheWrites \cup {[call |-> Len(probeLog), key |-> probe[1],
                                         info |-> fileStats[probe[1]], spawned |-> TRUE]}
    /\ probe' = None
    /\ UNCHANGED <<envVars, callVars, batchVars, chainVars, fileStats, probeInfoCache,
                   probeLog, quitVars>>

\* Lines 310-319: the inspection process could not be spawned; the call
\* rejects.  The child process may or may not emit 'close' after 'error':
\* when it does, the 'close' listener parses the empty output and calls
\* writeProbeCache with the empty info (0), and its resolve has no effect.
ProbeError(closes) ==
    /\ probe # None
    /\ probe' = None
    /\ probeLog' = [probeLog EXCEPT ![Len(probeLog)].outcome = "error"]
    /\ cacheWrites' = IF closes
                      THEN cacheWrites \cup {[call |-> Len(probeLog), key |-> probe[1],
                                              info |-> 0, spawned |-> FALSE]}
                      ELSE cacheWrites
    /\ UNCHANGED <<envVars, callVars, batchVars, chainVars, fileStats, probeInfoCache,
                   quitVars>>

\* Lines 280-286: the stat of a waiting writeProbeCache completes.
CacheWrite(write) ==
    /\ write \in cacheWrites
    /\ probeInfoCache' = writeProbeCache(probeInfoCache, fileStats, write.key, write.info)
    /\ cacheWrites' = cacheWrites \ {write}
    /\ UNCHANGED <<envVars, callVars, batchVars, chainVars, fileStats, probe, probeLog,
                   quitVars>>

\* A probed file is written again (version 2) or removed (version 0), once.
ChangeFile(filePath, version) ==
    /\ fileStats[filePath] = 1
    /\ version \in {0, 2}
    /\ fileStats' = [fileStats EXCEPT ![filePath] = version]
    /\ UNCHANGED <<envVars, callVars, batchVars, chainVars, probeInfoCache, cacheWrites,
                   probe, probeLog, quitVars>>

(***************************************************************************)
(* Inputs.                                                                 *)
(***************************************************************************)
SourcePath == <<"in", "/", "clip", ".mp4">>

ItemIds == <<"a", "b", "c", "d">>

\* A segment: {0, 2} is a 2-second clip, {5, 4} ends before it starts.
Segment(k, span) == [id |-> ItemIds[((k - 1) % 4) + 1], start |-> span[1], end |-> span[2]]

\* The segment lists of 0..n segments whose spans are all <<0, 2>>, or
\* alternate between <<0, 2>> and <<5, 4>>.
SegmentLists(n) ==
    UNION {{[k \in 1..m |-> Segment(k, <<0, 2>>)],
            [k \in 1..m |-> Segment(k, IF k % 2 = 1 THEN <<0, 2>> ELSE <<5, 4>>)]}
           : m \in 0..n}

NoLutPaths == {JsUndefined, JsNumber(7), JsString(<<>>), JsString(<<" ">>)}

ValidLutPath == JsString(<<" ", "a", ".cube", " ">>)

InvalidLutPaths ==
    {JsString(<<"b", ".cube">>), JsString(<<"a", ".txt">>), JsString(<<".cube">>)}

\* jobId: absent, or an id.
JobIds == {JsUndefined, JsString("job-1")}

\* jobId: not a string, or the empty string.
OtherJobIds == {JsNumber(7), JsString("")}

ProcessBatchArgs ==
    [filePath : {SourcePath}, outputDir : {"out"}, segments : SegmentLists(MaxItems),
     lutPath : {JsUndefined, ValidLutPath} \cup InvalidLutPaths, jobId : JobIds]
    \cup [filePath : {SourcePath}, outputDir : {"out"}, segments : {<<Segment(1, <<0, 2>>)>>},
          lutPath : {JsUndefined}, jobId : OtherJobIds]

Video(k) ==
    JsObject(JsString(ItemIds[((k - 1) % 4) + 1]), JsString(<<"in", "/", "video", ".mp4">>))

\* Entries the filter drops.
InvalidVideos ==
    <<JsNull, JsObject(JsString(""), JsString(<<"in", "/", "video", ".mp4">>)),
      JsObject(JsString("z"), JsUndefined), JsObject(JsNumber(7), JsString(<<>>))>>

\* Arrays of 0..n valid videos, one array with dropped entries around its
\* valid videos, and a value that is not an array.
VideoInputs(n) ==
    {JsArray([k \in 1..m |-> Video(k)]) : m \in 0..n}
    \cup {JsArray(<<InvalidVideos[1], Video(1), InvalidVideos[2]>>
                  \o [k \in 1..(n - 2) |-> Video(k + 1)]
                  \o <<InvalidVideos[3], InvalidVideos[4]>>),
          JsUndefined}

LutBatchArgs ==
    [videos : VideoInputs(MaxItems), outputDir : {"out"},
     lutPath : NoLutPaths \cup {ValidLutPath} \cup InvalidLutPaths, jobId : JobIds]
    \cup [videos : {JsArray(<<Video(1)>>)}, outputDir : {"out"},
          lutPath : {ValidLutPath}, jobId : OtherJobIds]

PreparePreviewArgs ==
    [filePath : {JsString(SourcePath), JsString(<<>>), JsUndefined},
     forceProxy : {JsUndefined, JsBoolean(FALSE), JsBoolean(TRUE)},
     lutPath : {JsUndefined, ValidLutPath} \cup InvalidLutPaths, jobId : JobIds]
    \cup [filePath : {JsString(SourcePath)}, forceProxy : {JsBoolean(TRUE)},
          lutPath : {JsUndefined}, jobId : OtherJobIds]

(***************************************************************************)
(* The next-state relation.  An attempt reports only progress from         *)
(* SomeProgressEvents.                                                     *)
(***************************************************************************)
NextWith(SomeProgressEvents) ==
    \/ \E a \in ProcessBatchArgs : CallProcessBatch(a)
    \/ \E o \in ProbeOutcomes : BatchProbe(o)
    \/ \E f \in BOOLEAN : BatchStart(f)
    \/ BatchItem
    \/ \E p \in SomeProgressEvents : ClipProgress(p)
    \/ BatchItemDone
    \/ \E f \in BOOLEAN : BatchItemFailed(f)
    \/ BatchFinish
    \/ \E a \in LutBatchArgs : CallLutBatch(a)
    \/ \E f \in BOOLEAN : LutStart(f)
    \/ \E o \in ProbeOutcomes : LutItem(o)
    \/ \E p \in SomeProgressEvents : VideoProgress(p)
    \/ LutItemDone
    \/ LutItemFailed
    \/ LutFinish
    \/ \E a \in PreparePreviewArgs : CallPreparePreview(a)
    \/ \E o \in ProbeOutcomes : PreviewProbe(o)
    \/ \E f \in BOOLEAN : PreviewMkdir(f)
    \/ PreviewCommandStart
    \/ \E p \in SomeProgressEvents : PreviewProgress(p)
    \/ PreviewDone
    \/ PreviewFailed
    \/ AttemptEnd
    \/ \E m \in ErrorMessages, partial \in BOOLEAN : AttemptError(m, partial)
    \/ \E f \in BOOLEAN : AttemptCleanup(f)

Next == NextWith(EdgeProgressEvents)

Spec == Init /\ [][Next]_vars

(***************************************************************************)
(* One process-batch call for LongBatch two-second segments on Linux, with *)
(* a job id and no LUT: the probe finds the duration or not, the output    *)
(* directory is created, every segment is exported by the first encoder,   *)
(* which may report 100 percent before it ends.                            *)
(***************************************************************************)
LongBatchArgs ==
    [filePath |-> SourcePath, outputDir |-> "out",
     segments |-> TupleOf([k \in 1..LongBatch |-> Segment(k, <<0, 2>>)], 1, LongBatch),
     lutPath |-> JsUndefined, jobId |-> JsString("job-1")]

InitLongBatch == Init /\ platform = "linux" /\ files = {}

NextLongBatch ==
    \/ CallProcessBatch(LongBatchArgs)
    \/ \E o \in ProbeOutcomes : BatchProbe(o)
    \/ BatchStart(FALSE)
    \/ BatchItem
    \/ ClipProgress(ProgressEventList[6])
    \/ AttemptEnd
    \/ BatchItemDone
    \/ BatchFinish

SpecLongBatch == InitLongBatch /\ [][NextLongBatch]_vars

(***************************************************************************)
(* One process-batch call whose subprocesses and file operations all       *)
(* complete: a step of the call other than a 'progress' event of the       *)
(* running encoder is taken when it stays possible.                        *)
(***************************************************************************)
BatchSettles ==
    \/ \E o \in ProbeOutcomes : BatchProbe(o)
    \/ \E f \in BOOLEAN : BatchStart(f)
    \/ BatchItem
    \/ AttemptEnd
    \/ \E m \in ErrorMessages, partial \in BOOLEAN : AttemptError(m, partial)
    \/ \E f \in BOOLEAN : AttemptCleanup(f)
    \/ BatchItemDone
    \/ \E f \in BOOLEAN : BatchItemFailed(f)
    \/ BatchFinish

\* Batches of 0..MaxItems two-second segments without a job id, without a
\* LUT or with one that is refused.
FairBatchArgs ==
    [filePath : {SourcePath}, outputDir : {"out"},
     segments : {[k \in 1..m |-> Segment(k, <<0, 2>>)] : m \in 0..MaxItems},
     lutPath : {JsUndefined, JsString(<<"a", ".txt">>)}, jobId : {JsUndefined}]

InitBatchFair == Init /\ files = {}

NextBatch ==
    \/ \E a \in FairBatchArgs : CallProcessBatch(a)
    \/ \E p \in {ProgressEventList[2], ProgressEventList[5]} : ClipProgress(p)
    \/ BatchSettles

SpecBatchFair == InitBatchFair /\ [][NextBatch]_vars /\ WF_vars(BatchSettles)

(***************************************************************************)
(* The probe cache on its own: calls of probeVideoInfo, cache writes in    *)
(* any order, and one file that changes while the program runs.            *)
(***************************************************************************)
NextProbe ==
    \/ \E f \in ProbeFiles : ProbeCall(f)
    \/ ProbeClose
    \/ \E c \in BOOLEAN : ProbeError(c)
    \/ \E w \in cacheWrites : CacheWrite(w)
    \/ \E f \in {g \in ProbeFiles : g[3] = "1"}, v \in {0, 2} : ChangeFile(f, v)

SpecProbe == InitLongBatch /\ [][NextProbe]_vars

(***************************************************************************)
(* The Proxy Registry over several calls: prepare-preview, cleanup-preview *)
(* and before-quit.  An unlink issued by cleanupPreviewProxy is [path, by] *)
(* until it completes.                                                     *)
(***************************************************************************)
\* A faulty cleanupPreviewProxy without the registry delete.
UnregisterNothing(paths, proxyPath) == paths

\* previewProxyPaths.delete(proxyPath)
UnregisterProxy(paths, proxyPath) == paths \ {proxyPath}

\* cleanupPreviewProxy from its await on: the unlink and the catch clause,
\* which warns unless the error is ENOENT and rethrows nothing.
cleanupPreviewProxy(fileSet, proxyPath, unlinkFails) ==
    IF proxyPath \notin fileSet
    THEN [files |-> fileSet, error |-> "ENOENT", warned |-> FALSE, rejected |-> FALSE]
    ELSE IF unlinkFails
    THEN [files |-> fileSet, error |-> "EPERM", warned |-> TRUE, rejected |-> FALSE]
    ELSE [files |-> fileSet \ {proxyPath}, error |-> "", warned |-> FALSE, rejected |-> FALSE]

\* The for loop of before-quit over Array.from(previewProxyPaths): the
\* synchronous part of each cleanupPreviewProxy call.
RECURSIVE UnregisterAll(_, _)
UnregisterAll(paths, stalePreviewPaths) ==
    IF stalePreviewPaths = {} THEN paths
    ELSE LET proxyPath == CHOOSE q \in stalePreviewPaths : TRUE
         IN  UnregisterAll(UnregisterProxy(paths, proxyPath), stalePreviewPaths \ {proxyPath})

\* The handler's promise has settled; the state of the call is discarded.
HandlerReturn ==
    /\ pc = "done"
    /\ handler' = "none"
    /\ pc' = "idle"
    /\ args' = [jobId |-> JsUndefined]
    /\ probeInfo' = EmptyProbeInfo
    /\ probeSpawns' = 0
    /\ response' = None
    /\ i' = 0
    /\ results' = <<>>
    /\ lastReportedProgress' = -1
    /\ maxSegmentPercent' = Zero
    /\ events' = <<>>
    /\ encoderAttempts' = <<>>
    /\ index' = 0
    /\ lastErrorMessage' = ""
    /\ outputPath' = <<>>
    /\ durationSec' = None
    /\ attempts' = <<>>
    /\ lastFailure' = ""
    /\ lastCleanup' = "none"
    /\ UNCHANGED <<envVars, cacheVars, quitVars>>

\* Lines 957-962 and 755-757: cleanup-preview up to the await of the unlink.
CleanupPreview(proxyPath) ==
    /\ \A u \in unlinks : u.by # "cleanup-preview"
    /\ IF proxyPath.t # "string" \/ proxyPath.v = <<>>
       THEN /\ cleanupResult' = Some([proxyPath |-> proxyPath, error |-> "",
                                      value |-> [success |-> TRUE]])
            /\ UNCHANGED <<previewProxyPaths, unlinks>>
       ELSE /\ previewProxyPaths' = UnregisterProxy(previewProxyPaths, proxyPath.v)
            /\ unlinks' = unlinks \cup {[path |-> proxyPath.v, by |-> "cleanup-preview",
                                           tracked |-> proxyPath.v \in previewProxyPaths]}
            /\ cleanupResult' = None
    /\ UNCHANGED <<platform, files, madeDirs, callVars, batchVars, chainVars, cacheVars, quit,
                   rival>>

\* Lines 813-818: before-quit.
BeforeQuit ==
    /\ quit = "no"
    /\ previewProxyPaths' = UnregisterAll(previewProxyPaths, previewProxyPaths)
    /\ unlinks' = unlinks \cup {[path |-> q, by |-> "before-quit", tracked |-> TRUE] :
                                   q \in previewProxyPaths}
    /\ quit' = "before-quit"
    /\ UNCHANGED <<platform, files, madeDirs, callVars, batchVars, chainVars, cacheVars,
                   cleanupResult, rival>>

\* Lines 757-762 and 962-967: an unlink completes; cleanup-preview returns,
\* and a rejection of a call made with void would be left unhandled.
UnlinkDone(u, unlinkFails) ==
    /\ u \in unlinks
    /\ unlinks' = unlinks \ {u}
    /\ LET done == cleanupPreviewProxy(files, u.path, unlinkFails)
       IN  /\ files' = done.files
           /\ cleanupResult' =
                  IF u.by # "cleanup-preview" THEN cleanupResult
                  ELSE Some([proxyPath |-> JsString(u.path), error |-> done.error,
                             value |-> IF done.rejected
                                       THEN [success |-> FALSE, error |-> done.error]
                                       ELSE [success |-> TRUE]])
           /\ quit' = IF u.by = "before-quit" /\ done.rejected
                      THEN "unhandledRejection" ELSE quit
    /\ UNCHANGED <<platform, madeDirs, previewProxyPaths, callVars, batchVars, chainVars,
                   cacheVars, rival>>

\* Two sources, each previewed through a proxy.
RegistrySources == {SourcePath, <<"in", "/", "take", ".mp4">>}

\* The proxyPath arguments of cleanup-preview: none, the proxy of a source,
\* and the path of an earlier export, which is no proxy.
EarlierExport == CandidatePath("out", <<"video", "_lut">>, ".mov", 1)

CleanupPaths ==
    {JsUndefined, JsString(EarlierExport)} \cup {JsString(ProxyPath(f)) : f \in RegistrySources}

\* prepare-preview through a proxy, for each of the sources.
ProxyPreviewArgs(sources) ==
    [filePath : {JsString(f) : f \in sources}, forceProxy : {JsBoolean(TRUE)},
     lutPath : {JsUndefined}, jobId : {JsUndefined}]

NextRegistry ==
    \/ \E a \in ProxyPreviewArgs(RegistrySources) : CallPreparePreview(a)
    \/ \E o \in ProbeOutcomes : PreviewProbe(o)
    \/ \E f \in BOOLEAN : PreviewMkdir(f)
    \/ PreviewCommandStart
    \/ PreviewDone
    \/ PreviewFailed
    \/ AttemptEnd
    \/ \E m \in ErrorMessages, partial \in BOOLEAN : AttemptError(m, partial)
    \/ \E f \in BOOLEAN : AttemptCleanup(f)
    \/ HandlerReturn
    \/ \E q \in CleanupPaths : CleanupPreview(q)
    \/ BeforeQuit
    \/ \E u \in unlinks, f \in BOOLEAN : UnlinkDone(u, f)

\* The registry is empty at launch; the output directory is empty or holds
\* earlier exports.
InitRegistry == Init /\ platform = "linux"

SpecRegistry == InitRegistry /\ [][NextRegistry]_vars

(***************************************************************************)
(* The pure functions of main.ts, each applied to one input per step: the  *)
(* call variables hold the function, its arguments and its result.         *)
(***************************************************************************)
\* A number with a fraction: thousandths / 1000.
Milli(thousandths) == [t |-> "number", milli |-> thousandths]

\* Number(value) of a value that is not a number: undefined gives NaN, null
\* and the empty string 0, true 1, a string of digits its value, any other
\* string NaN.
ToNumber(value) ==
    IF value.t = "null" THEN Milli(0)
    ELSE IF value.t = "boolean" THEN Milli(IF value.v THEN 1000 ELSE 0)
    ELSE IF value.t = "string" /\ value.v = <<>> THEN Milli(0)
    ELSE IF value.t = "string"
            /\ \A k \in 1..Len(value.v) : \E d \in 0..9 : value.v[k] = DigitChar(d)
    THEN Milli(1000 * (CHOOSE n \in 0..999 : Digits(n) = value.v))
    ELSE JsNaN

normalizeLutIntensity(value) ==
    LET numeric == IF value.t \in {"number", "NaN"} THEN value ELSE ToNumber(value)
    IN  IF numeric.t = "NaN" THEN Milli(100000)
        ELSE Milli(IF numeric.milli < 0 THEN 0
                   ELSE IF numeric.milli > 100000 THEN 100000
                   ELSE numeric.milli)

RECURSIVE escapePathForFilter(_)
escapePathForFilter(filePath) ==
    IF filePath = <<>> THEN <<>>
    ELSE (IF Head(filePath) = "\\" THEN <<"/">>
          ELSE IF Head(filePath) = ":" THEN <<"\\", ":">>
          ELSE IF Head(filePath) = "'" THEN <<"\\", "\\", "'">>
          ELSE <<Head(filePath)>>)
         \o escapePathForFilter(Tail(filePath))

buildLutFilter(filePath) == <<"lut3d=file='">> \o escapePathForFilter(filePath) \o <<"'">>

\* The four decimals of ten-thousandths n / 10000.
FixedDigits(n) ==
    Digits(n \div 10000)
    \o <<".", DigitChar((n \div 1000) % 10), DigitChar((n \div 100) % 10),
         DigitChar((n \div 10) % 10), DigitChar(n % 10)>>

\* A faulty toFixed(4) that drops the digits after the fourth.
toFixedTruncated(x) ==
    IF IsZero(x) THEN FixedDigits(0)
    ELSE LET I == ShiftLimbs(MulLimbs(x.m, <<10000, 0, 0, 0>>), 0 - x.e, 2)
         IN  FixedDigits(I[1] + I[2] * LimbBase)

\* x.toFixed(4) of a double 0 <= x <= 1: the integer n with n / 10000
\* nearest to the exact value of x, the larger of two equally near.
toFixed(x) ==
    IF IsZero(x) THEN FixedDigits(0)
    ELSE LET P == MulLimbs(x.m, <<10000, 0, 0, 0>>)
             I == ShiftLimbs(P, 0 - x.e, 2)
         IN  FixedDigits(I[1] + I[2] * LimbBase + BitAt(P, 0 - x.e - 1))

\* lutPath is null or the empty string (both <<>>) or a path; lutIntensity
\* is a number, NaN included.  The result is null (None) or the text of the
\* filter graph.
buildLutFilterGraph(lutPath, lutIntensity) ==
    IF lutPath = <<>> THEN None
    ELSE IF lutIntensity.t = "NaN"
    THEN Some(<<"split=2[orig][lutsrc];[lutsrc]">> \o buildLutFilter(lutPath)
              \o <<"[lutout];[lutout][orig]blend=all_mode=normal:all_opacity=", "NaN">>)
    ELSE LET clampedIntensity ==
                 IF lutIntensity.milli <= 0 THEN Zero
                 ELSE MinD(D100, DivD(FromInt(lutIntensity.milli), 1000))
         IN  IF ~LessD(Zero, clampedIntensity) THEN None
             ELSE IF ~LessD(clampedIntensity, D100) THEN Some(buildLutFilter(lutPath))
             ELSE Some(<<"split=2[orig][lutsrc];[lutsrc]">> \o buildLutFilter(lutPath)
                       \o <<"[lutout];[lutout][orig]blend=all_mode=normal:all_opacity=">>
                       \o toFixed(DivD(clampedIntensity, 100)))

LutFiles == {<<>>, <<"a", ".cube">>, <<"C", ":", "\\", "it", "'", "s", ".cube">>}

LutIntensities ==
    {JsNaN} \cup {Milli(k) : k \in {-5000, 0, 1, 49, 50, 12345, 12349, 33333, 50000,
                                   99994, 99995, 99999, 100000, 250000}}

\* Lines 381-397 applied to a number, and lines 342-349 followed by them as
\* the handlers do (929, 973, 1066) when normalized.
FilterGraph(lutPath, value, normalized) ==
    /\ handler = "none"
    /\ handler' = "buildLutFilterGraph"
    /\ args' = [lutPath |-> lutPath, lutIntensity |-> value, normalized |-> normalized]
    /\ response' = Returned(buildLutFilterGraph(lutPath,
                       IF normalized THEN normalizeLutIntensity(value) ELSE value))
    /\ pc' = "done"
    /\ UNCHANGED <<envVars, probeInfo, probeSpawns, batchVars, chainVars, cacheVars,
                   quitVars>>

(***************************************************************************)
(* What the inspection process prints, as lines of tokens: a word, a       *)
(* decimal number in tenths, a time h:m:s or a resolution w x h.           *)
(***************************************************************************)
Tok(k, s, n) == [k |-> k, s |-> s, n |-> n]

\* The leftmost number followed by kb/s; Math.round of a number of tenths
\* rounds halves up.
parseBitrateKbpsFromText(line) ==
    LET matches == {j \in 1..(Len(line) - 1) :
                        /\ line[j].k = "num"
                        /\ line[j + 1].k = "word"
                        /\ line[j + 1].s \in {"kb/s", "Kb/s", "kB/s", "KB/s"}}
    IN  IF matches = {} THEN None
        ELSE LET value == line[CHOOSE j \in matches : \A h \in matches : j <= h].n[1]
             IN  IF value <= 0 THEN None ELSE Some((value + 5) \div 10)

\* lines.find(test): the first of the lines that pass the test (passing holds
\* their positions), <<>> (undefined) if none.
Find(lines, passing) ==
    IF passing = {} THEN <<>>
    ELSE lines[CHOOSE j \in passing : \A h \in passing : j <= h]

Includes(line, marker) == \E j \in 1..Len(line) : line[j] = Tok("word", marker, <<>>)

parseProbeInfoFromFfmpegOutput(lines) ==
    LET videoLine    == Find(lines, {j \in 1..Len(lines) : Includes(lines[j], "Video:")})
        audioLine    == Find(lines, {j \in 1..Len(lines) : Includes(lines[j], "Audio:")})
        durationLine == Find(lines, {j \in 1..Len(lines) :
                                        /\ lines[j] # <<>>
                                        /\ lines[j][1] = Tok("word", "Duration:", <<>>)})
        parsedDuration ==
            IF Len(durationLine) >= 2 /\ durationLine[2].k = "time"
            THEN parseTimemarkToSeconds(durationLine[2].n)
            ELSE None
        formatBitRateKbps ==
            IF durationLine # <<>> THEN parseBitrateKbpsFromText(durationLine) ELSE None
        markerIndex == CHOOSE j \in 1..Len(videoLine) :
                           videoLine[j] = Tok("word", "Video:", <<>>)
        firstPart   == IF markerIndex < Len(videoLine) THEN videoLine[markerIndex + 1]
                       ELSE Tok("word", "", <<>>)
        resolutions == {j \in (markerIndex + 1)..Len(videoLine) : videoLine[j].k = "res"}
        resolutionMatch ==
            IF resolutions = {} THEN <<0, 0>>
            ELSE videoLine[CHOOSE j \in resolutions : \A h \in resolutions : j <= h].n
    IN  IF videoLine = <<>>
        THEN [stream |-> None,
              audioStream |-> IF audioLine # <<>>
                              THEN Some([bit_rate_kbps |-> parseBitrateKbpsFromText(audioLine)])
                              ELSE None,
              durationSec |-> parsedDuration,
              formatBitRateKbps |-> formatBitRateKbps]
        ELSE [stream |-> Some([codec_name |->
                                   IF firstPart.k = "word" /\ firstPart.s # ""
                                   THEN Some(ToLowerCase(firstPart.s)) ELSE None,
                               width |-> IF resolutionMatch[1] # 0
                                         THEN Some(resolutionMatch[1]) ELSE None,
                               height |-> IF resolutionMatch[2] # 0
                                          THEN Some(resolutionMatch[2]) ELSE None,
                               bit_rate_kbps |-> parseBitrateKbpsFromText(videoLine)]),
              audioStream |-> IF audioLine # <<>>
                                 /\ parseBitrateKbpsFromText(audioLine) # None
                              THEN Some([bit_rate_kbps |-> parseBitrateKbpsFromText(audioLine)])
                              ELSE None,
              durationSec |-> parsedDuration,
              formatBitRateKbps |-> formatBitRateKbps]

\* A faulty probe that refuses a source without a video stream.
probeVideoInfoVideoOnly(stderrOutput, spawnFails) ==
    IF spawnFails \/ parseProbeInfoFromFfmpegOutput(stderrOutput).stream = None
    THEN Rejected(<<"spawn">>)
    ELSE Returned(parseProbeInfoFromFfmpegOutput(stderrOutput))

\* Lines 297-320, for a file that is not in the cache: 'error' rejects with
\* the spawn error, 'close' resolves with the parsed output whatever the
\* exit code.
probeVideoInfo(stderrOutput, spawnFails) ==
    IF spawnFails THEN Rejected(<<"spawn">>)
    ELSE Returned(parseProbeInfoFromFfmpegOutput(stderrOutput))

\* Lines 711-735 after the probe has settled: the info, empty after a spawn
\* error, and the two bitrates derived from it.
SourceBitRates(settled) ==
    LET info == IF settled[1].kind = "rejected"
                THEN [stream |-> None, audioStream |-> None, durationSec |-> None,
                      formatBitRateKbps |-> None]
                ELSE settled[1].value
        sourceAudioBitRateKbps ==
            IF info.audioStream # None THEN info.audioStream[1].bit_rate_kbps ELSE None
        difference == info.formatBitRateKbps[1]
                      - (IF sourceAudioBitRateKbps # None THEN sourceAudioBitRateKbps[1]
                         ELSE 0)
        sourceVideoBitRateKbps ==
            IF info.stream # None /\ info.stream[1].bit_rate_kbps # None
            THEN info.stream[1].bit_rate_kbps
            ELSE IF info.formatBitRateKbps # None /\ info.formatBitRateKbps[1] # 0
            THEN Some(IF difference > 400 THEN difference ELSE 400)
            ELSE None
    IN  [info |-> info,
         sourceVideoBitRateKbps |-> sourceVideoBitRateKbps,
         sourceAudioBitRateKbps |-> sourceAudioBitRateKbps]

encoderOutputOptions(encoder) ==
    IF encoder[1] = "libx264" THEN << <<"-preset">>, <<encoder[2]>> >>
    ELSE IF encoder[1] = "h264_nvenc"
    THEN << <<"-preset">>, <<"p4">>, <<"-rc">>, <<"vbr">> >>
    ELSE IF encoder[1] = "h264_qsv" THEN << <<"-look_ahead">>, <<"0">> >>
    ELSE IF encoder[1] = "h264_amf" THEN << <<"-quality">>, <<"speed">> >>
    ELSE << <<"-allow_sw">>, <<"1">> >>

\* A faulty option that is pushed for every known bitrate.
BitRateOptionUnchecked(flag, kbps) ==
    IF kbps # None THEN << <<flag>>, Digits(kbps[1]) \o <<"k">> >> ELSE <<>>

\* Lines 466-468 and 470-472: the option and `${Math.round(kbps)}k`.
BitRateOption(flag, kbps) ==
    IF kbps # None /\ kbps[1] # 0 /\ kbps[1] > 0
    THEN << <<flag>>, Digits(kbps[1]) \o <<"k">> >>
    ELSE <<>>

\* The options are strings, each a sequence of characters.
buildExportOutputOptions(encoder, lutPath, lutIntensity, videoKbps, audioKbps) ==
    LET lutFilterGraph == buildLutFilterGraph(lutPath, lutIntensity)
    IN  << <<"-movflags">>, <<"use_metadata_tags">>, <<"-pix_fmt">>, <<"yuv420p">> >>
        \o encoderOutputOptions(encoder)
        \o (IF lutFilterGraph # None THEN << <<"-vf">>, lutFilterGraph[1] >> ELSE <<>>)
        \o BitRateOption("-b:v", videoKbps)
        \o BitRateOption("-b:a", audioKbps)

DurationLines ==
    {<<>>,
     <<Tok("word", "Duration:", <<>>), Tok("word", "N/A", <<>>),
       Tok("word", "bitrate:", <<>>), Tok("word", "N/A", <<>>)>>,
     <<Tok("word", "Duration:", <<>>), Tok("time", "", <<0, 0, 10>>),
       Tok("word", "bitrate:", <<>>), Tok("num", "", <<25000>>), Tok("word", "kb/s", <<>>)>>,
     <<Tok("word", "Duration:", <<>>), Tok("time", "", <<0, 0, 10>>),
       Tok("word", "bitrate:", <<>>), Tok("num", "", <<3000>>), Tok("word", "kb/s", <<>>)>>,
     <<Tok("word", "Duration:", <<>>), Tok("time", "", <<0, 0, 10>>),
       Tok("word", "bitrate:", <<>>), Tok("num", "", <<3>>), Tok("word", "kb/s", <<>>)>>}

VideoLines ==
    {<<>>,
     <<Tok("word", "Stream", <<>>), Tok("word", "Video:", <<>>)>>,
     <<Tok("word", "Stream", <<>>), Tok("word", "Video:", <<>>), Tok("word", "H264", <<>>),
       Tok("res", "", <<1920, 1080>>)>>,
     <<Tok("word", "Stream", <<>>), Tok("word", "Video:", <<>>), Tok("word", "H264", <<>>),
       Tok("res", "", <<1920, 1080>>), Tok("num", "", <<0>>), Tok("word", "kb/s", <<>>)>>,
     <<Tok("word", "Stream", <<>>), Tok("word", "Video:", <<>>), Tok("word", "H264", <<>>),
       Tok("res", "", <<1920, 1080>>), Tok("num", "", <<3>>), Tok("word", "kb/s", <<>>)>>,
     <<Tok("word", "Stream", <<>>), Tok("word", "Video:", <<>>), Tok("word", "H264", <<>>),
       Tok("res", "", <<1920, 1080>>), Tok("num", "", <<20005>>), Tok("word", "kb/s", <<>>)>>}

AudioLines ==
    {<<>>,
     <<Tok("word", "Stream", <<>>), Tok("word", "Audio:", <<>>), Tok("word", "aac", <<>>)>>,
     <<Tok("word", "Stream", <<>>), Tok("word", "Audio:", <<>>), Tok("word", "aac", <<>>),
       Tok("num", "", <<1280>>), Tok("word", "kb/s", <<>>)>>}

\* The text: the banner, then the lines that are present.
StderrOutput(durationLine, videoLine, audioLine) ==
    << <<Tok("word", "Input", <<>>), Tok("word", "#0", <<>>)>> >>
    \o (IF durationLine # <<>> THEN <<durationLine>> ELSE <<>>)
    \o (IF videoLine # <<>> THEN <<videoLine>> ELSE <<>>)
    \o (IF audioLine # <<>> THEN <<audioLine>> ELSE <<>>)

\* Lines 975-977 and 1040-1041 (1115-1117, 1133-1134): the source is probed,
\* its bitrates are derived and the output options of one encoder are built.
ProbeSource(stderrOutput, exitCode, spawnFails, encoder) ==
    /\ handler = "none"
    /\ handler' = "probeSourceInfoWithBitrates"
    /\ args' = [stderrOutput |-> stderrOutput, exitCode |-> exitCode,
                spawnFails |-> spawnFails, encoder |-> encoder]
    /\ response' =
           LET settled == probeVideoInfo(stderrOutput, spawnFails)
               source  == SourceBitRates(settled)
           IN  Returned([probe |-> settled,
                         source |-> source,
                         outputOptions |->
                             buildExportOutputOptions(encoder, None, Milli(100000),
                                                      source.sourceVideoBitRateKbps,
                                                      source.sourceAudioBitRateKbps)])
    /\ pc' = "done"
    /\ UNCHANGED <<envVars, probeInfo, probeSpawns, batchVars, chainVars, cacheVars,
                   quitVars>>

\* Lines 527-540, 604-616, 680-692: one 'progress' sample of an attempt;
\* the result is the value passed to onProgress, or None without a call.
OnProgress(progress, duration) ==
    /\ handler = "none"
    /\ handler' = "progress"
    /\ args' = [progress |-> progress, durationSec |-> duration]
    /\ response' = Returned(ProgressPercentOf(progress, duration))
    /\ pc' = "done"
    /\ UNCHANGED <<envVars, probeInfo, probeSpawns, batchVars, chainVars, cacheVars,
                   quitVars>>

NextFunctions ==
    \/ \E d \in DurationLines, v \in VideoLines, a \in AudioLines, code \in {0, 1},
          encoder \in {<<"libx264", EXPORT_PRIMARY_X264_PRESET>>, <<"h264_qsv">>} :
           ProbeSource(StderrOutput(d, v, a), code, FALSE, encoder)
    \/ \E code \in {0, 1} :
           ProbeSource(<<>>, code, TRUE, <<"libx264", EXPORT_PRIMARY_X264_PRESET>>)
    \/ \E f \in LutFiles, v \in LutIntensities : FilterGraph(f, v, FALSE)
    \/ \E f \in LutFiles,
          v \in LutIntensities
                \cup {JsUndefined, JsNull, JsBoolean(TRUE), JsString(<<>>),
                      JsString(<<"5", "0">>), JsString(<<"a">>)} :
           FilterGraph(f, v, TRUE)
    \/ \E a \in 1..Len(ProgressEventList), b \in 1..Len(DurationList) :
           OnProgress(ProgressEventList[a], DurationList[b])
    \/ HandlerReturn

SpecFunctions == InitLongBatch /\ [][NextFunctions]_vars

(***************************************************************************)
(* Properties of the attempt chain (exportSingleClip, exportSingleFullVideo *)
(* and createPreviewProxy).  attempts is the log of the encoder            *)
(* subprocesses the current chain has started.                             *)
(***************************************************************************)
InChain == pc \in {"spawned", "running", "unlink", "returned", "thrown"}

LastAttempt == attempts[Len(attempts)]

\* C1: in every attempt chain the encoder candidates are started strictly
\* in list order and one at a time: the k-th subprocess started runs the
\* k-th candidate, every attempt before the latest has failed, at most the
\* latest attempt is still running, and an attempt has succeeded exactly
\* when the chain has returned, so that no later candidate follows it.
C1_CandidatesInOrder ==
    /\ Len(attempts) <= Len(encoderAttempts)
    /\ \A k \in 1..Len(attempts) :
          /\ attempts[k].encoder = encoderAttempts[k]
          /\ k < Len(attempts) => attempts[k].outcome = "failed"
    /\ InChain =>
          /\ Len(attempts) = index + 1
          /\ (pc = "returned") <=> (LastAttempt.outcome = "succeeded")
          /\ (pc \in {"spawned", "running"}) <=> (LastAttempt.outcome = "running")

\* A chain returned from its second or a later candidate and left at least
\* one candidate unused.
C1_Witness ==
    /\ pc = "returned"
    /\ Len(attempts) >= 2
    /\ Len(attempts) < Len(encoderAttempts)
    /\ LastAttempt.outcome = "succeeded"

\* The chain has run the catch clause of a failed attempt to its end: the
\* next candidate has just been started, or the chain has thrown.
AfterCleanup ==
    \/ pc = "thrown"
    \/ pc \in {"spawned", "running"} /\ Len(attempts) > 1

\* C2 as stated: after a failed attempt no file is left at the output path
\* when the next candidate is started, nor when the chain throws.
C2_NoOutputAfterFailure == AfterCleanup => outputPath \notin files

\* C2, amended: after a failed attempt the removal of the output path has
\* been attempted before the next candidate is started or the chain throws,
\* and a file is left at the output path only if that removal itself failed.
C2_OutputRemovedUnlessUnlinkFails ==
    AfterCleanup =>
        /\ lastCleanup \in {"enoent", "removed", "failed"}
        /\ outputPath \in files => lastCleanup = "failed"
        /\ lastCleanup = "failed" => outputPath \in files

\* Every candidate failed, the last one left a partial output, and the
\* chain throws with the file removed.
C2_Witness ==
    /\ pc = "thrown"
    /\ Len(attempts) >= 2
    /\ lastCleanup = "removed"
    /\ outputPath \notin files

\* C3: an attempt chain throws only after every candidate has been started
\* and has failed, and the message it throws is the message of the last
\* candidate's failure.
C3_ThrowsLastFailureAfterAllFailed ==
    pc = "thrown" =>
        /\ Len(attempts) = Len(encoderAttempts)
        /\ \A k \in 1..Len(attempts) : attempts[k].outcome = "failed"
        /\ lastErrorMessage = lastFailure
        /\ lastErrorMessage \in ErrorMessages

\* A chain of several candidates has thrown.
C3_Witness ==
    /\ pc = "thrown"
    /\ Len(attempts) >= 2
    /\ lastErrorMessage = "Conversion failed"

(***************************************************************************)
(* Properties of process-batch.                                            *)
(***************************************************************************)
IsReturned == response # None /\ response[1].kind = "returned"

\* The result recorded for an exported item, and for a failed one.
IsSuccessEntry(r, id, path) ==
    /\ DOMAIN r = {"id", "success", "path"}
    /\ r.id = id
    /\ r.success
    /\ r.path = path

IsFailureEntry(r, id) ==
    /\ DOMAIN r = {"id", "success", "error"}
    /\ r.id = id
    /\ ~r.success
    /\ r.error # ""

\* The output name of the k-th segment: {baseName}_clip_{k, two digits}.mov.
ClipName(k) ==
    <<args.outputDir, "/", "clip", "_clip_">>
    \o (IF k < 10 THEN <<"0", DigitChar(k)>> ELSE <<DigitChar(k \div 10), DigitChar(k % 10)>>)
    \o <<".mov">>

\* C4: process-batch records one result per segment, in input order and
\* under the segment's id: a segment whose chain returned has success=true
\* and its output path, a segment whose chain failed on every candidate has
\* success=false and an error message and no path, and the next segment is
\* attempted either way; the call returns success=true with all n results.
C4_BatchResultsInOrder ==
    handler = "process-batch" =>
        /\ Len(results) = i
        /\ i <= Len(args.segments)
        /\ \A k \in 1..i :
              \/ IsSuccessEntry(results[k], args.segments[k].id, ClipName(k))
              \/ IsFailureEntry(results[k], args.segments[k].id)
        /\ (pc = "item" /\ i > 0) =>
              /\ results[i].success <=> (LastAttempt.outcome = "succeeded")
              /\ ~results[i].success => results[i].error = lastFailure
        /\ IsReturned =>
              /\ response[1].value = [success |-> TRUE, results |-> results]
              /\ i = Len(args.segments)

\* Two segments, the first failed on every candidate, the second exported.
C4_Witness ==
    /\ handler = "process-batch"
    /\ IsReturned
    /\ Len(response[1].value.results) = 2
    /\ ~response[1].value.results[1].success
    /\ response[1].value.results[2].success

(***************************************************************************)
(* Properties of process-lut-full-batch.                                   *)
(***************************************************************************)
\* The videos the handler processes: the entries of the array that are
\* objects with a non-empty string id and a non-empty string filePath.
ProcessedVideos ==
    IF args.videos.t # "array" THEN <<>>
    ELSE SelectSeq(args.videos.v,
                   LAMBDA v : /\ v.t = "object"
                              /\ v.id.t = "string" /\ v.id.v # ""
                              /\ v.filePath.t = "string" /\ v.filePath.v # <<>>)

\* Every name buildUniqueOutputPath can give to video.mp4 is taken.
NamesExhausted ==
    /\ <<"out", "/", "video", "_lut", ".mov">> \in files
    /\ \A suffix \in 2..(SuffixLimit - 1) :
          <<"out", "/", "video", "_lut", "_", DigitChar(suffix), ".mov">> \in files

C5_ResultsInOrder ==
    handler = "process-lut-full-batch" =>
        /\ Len(results) = i
        /\ i <= Len(ProcessedVideos)
        /\ \A k \in 1..i :
              \/ /\ DOMAIN results[k] = {"id", "success", "path"}
                 /\ results[k].id = ProcessedVideos[k].id.v
                 /\ results[k].success
              \/ IsFailureEntry(results[k], ProcessedVideos[k].id.v)
        /\ (IsReturned /\ args.lutPath \notin NoLutPaths) =>
              /\ response[1].value = [success |-> TRUE, results |-> results]
              /\ i = Len(ProcessedVideos)

C5_FailureStep ==
    /\ (handler = "process-lut-full-batch" /\ pc = "thrown") =>
          /\ results' = Append(results, [id |-> ProcessedVideos[i + 1].id.v,
                                         success |-> FALSE, error |-> lastFailure])
          /\ i' = i + 1
          /\ pc' = "item"
    /\ (handler = "process-lut-full-batch" /\ pc = "item"
          /\ i < Len(ProcessedVideos) /\ NamesExhausted) =>
          /\ results' = Append(results, [id |-> ProcessedVideos[i + 1].id.v,
                                         success |-> FALSE,
                                         error |-> "Failed to allocate output file path"])
          /\ i' = i + 1
          /\ pc' = "item"

\* C5: with a valid LUT, process-lut-full-batch records every per-item
\* failure (no output name left, or every encoder candidate failed) as that
\* item's result with success=false and the error message, goes on to the
\* next video, and returns success=true with one result per processed video
\* in input order, also when every item failed.
C5_LutBatchIsolatesFailures == []C5_ResultsInOrder /\ [][C5_FailureStep]_vars

\* Two videos, none exported: no output name was left for the first.
C5_Witness ==
    /\ handler = "process-lut-full-batch"
    /\ IsReturned
    /\ response[1].value.success
    /\ Len(response[1].value.results) = 2
    /\ \A k \in 1..2 : ~response[1].value.results[k].success
    /\ response[1].value.results[1].error = "Failed to allocate output file path"

\* C6 as stated: process-batch starts no encoder subprocess for a segment
\* whose end is not greater than its start, so that every chain it runs has
\* a positive duration.
C6_NoTranscodeOfEmptySegment ==
    (handler = "process-batch" /\ attempts # <<>>) =>
        /\ durationSec # None
        /\ durationSec[1] > 0

\* C7: process-lut-full-batch called with a LUT path that is not a string,
\* is empty or holds only whitespace has returned {success: false,
\* results: []} without a probe or an encoder subprocess, without a
\* progress event and without creating the output directory.
C7_NoLutReturnsAtOnce ==
    (handler = "process-lut-full-batch" /\ args.lutPath \in NoLutPaths) =>
        /\ pc = "done"
        /\ response = <<[kind |-> "returned",
                         value |-> [success |-> FALSE, results |-> <<>>]]>>
        /\ probeSpawns = 0
        /\ attempts = <<>>
        /\ events = <<>>
        /\ madeDirs = {}
        /\ files \in {{}, TakenNames}

\* The call with a whitespace-only LUT path, a job id and videos has returned.
C7_Witness ==
    /\ handler = "process-lut-full-batch"
    /\ args.lutPath = JsString(<<" ">>)
    /\ args.jobId = JsString("job-1")
    /\ Len(ProcessedVideos) = 2
    /\ IsReturned
    /\ ~response[1].value.success

(***************************************************************************)
(* Properties of the progress events.                                      *)
(***************************************************************************)
\* C9 as stated: the percent values prepare-preview emits for a job are
\* non-decreasing.
C9_PreviewPercentNonDecreasing ==
    handler = "prepare-preview" =>
        \A j \in 1..(Len(events) - 1) : events[j].percent <= events[j + 1].percent

IsExport == handler \in {"process-batch", "process-lut-full-batch"}

\* C8 as stated: the percent values an export job emits (start, progress,
\* done) are non-decreasing.
C8_ExportPercentNonDecreasing ==
    IsExport =>
        \A j \in 1..(Len(events) - 1) : events[j].percent <= events[j + 1].percent

ProgressPhaseEvents == SelectSeq(events, LAMBDA ev : ev.phase = "progress")

\* C10 as stated: within one export job every phase=progress event carries
\* a percent strictly greater than the previous phase=progress event.
C10_ProgressStrictlyIncreasing ==
    IsExport =>
        \A j \in 1..(Len(ProgressPhaseEvents) - 1) :
            ProgressPhaseEvents[j].percent < ProgressPhaseEvents[j + 1].percent

\* The call carries a job id: a non-empty string.
HasJobId == handler # "none" /\ args.jobId.t = "string" /\ args.jobId.v # ""

\* C11: the events of a job have the shape start, progress*, done: the
\* first event and no other has phase=start, an event of phase=done has
\* percent 100 and is the last event of the call, which has ended, and a
\* call with a job id that has reached its loop or its encoder has emitted
\* phase=start.
C11_StartProgressDone ==
    /\ \A j \in 1..Len(events) :
          /\ events[j].phase \in {"start", "progress", "done"}
          /\ (events[j].phase = "start") <=> (j = 1)
          /\ (events[j].phase = "done") =>
                (j = Len(events) /\ events[j].percent = 100 /\ pc = "done")
    /\ (HasJobId /\ (pc = "item" \/ InChain)) => events # <<>>

\* A preview job that fell back to a second encoder: start, the reports of
\* two encoder starts and of progress, done.
C11_Witness ==
    /\ handler = "prepare-preview"
    /\ Len(attempts) >= 2
    /\ Len(events) >= 4
    /\ events[1].phase = "start"
    /\ events[Len(events)].phase = "done"

\* The call has ended in a failure: it threw, or returned success=false.
CallFailed ==
    /\ response # None
    /\ \/ response[1].kind = "rejected"
       \/ response[1].kind = "returned" /\ ~response[1].value.success

\* C12 as stated: once phase=start has been emitted for a job, the call does
\* not fail without phase=done having been emitted.
C12_NoFailureAfterStart ==
    (HasJobId /\ CallFailed /\ events # <<>>) => events[Len(events)].phase = "done"

\* C13: a call without a job id (absent, not a string, or the empty string)
\* emits no progress event of any phase, whatever its outcome.
C13_SilentWithoutJobId ==
    (handler # "none" /\ ~(args.jobId.t = "string" /\ args.jobId.v # "")) => events = <<>>

\* A process-batch call with the empty string as job id has exported its
\* segment and returned.
C13_Witness ==
    /\ handler = "process-batch"
    /\ args.jobId = JsString("")
    /\ IsReturned
    /\ Len(response[1].value.results) = 1
    /\ response[1].value.results[1].success

\* C16: prepare-preview without forceProxy (absent or false) starts no
\* encoder subprocess, emits no event, creates no directory, writes no file
\* and leaves the registry as it was, and for a non-empty string file path
\* it returns success=true, useProxy=false and the URL of that file.
C16_DirectPreview ==
    (handler = "prepare-preview" /\ args.forceProxy \in {JsUndefined, JsBoolean(FALSE)}) =>
        /\ attempts = <<>>
        /\ events = <<>>
        /\ madeDirs = {}
        /\ files \in {{}, TakenNames}
        /\ previewProxyPaths = {}
        /\ (pc = "done" /\ args.filePath.t = "string" /\ args.filePath.v # <<>>) =>
              /\ IsReturned
              /\ response[1].value.success
              /\ ~response[1].value.useProxy
              /\ response[1].value.url = <<"file://">> \o args.filePath.v
              /\ "path" \notin DOMAIN response[1].value

\* The call without a forceProxy argument, with a job id, has returned.
C16_Witness ==
    /\ handler = "prepare-preview"
    /\ args.forceProxy = JsUndefined
    /\ args.jobId = JsString("job-1")
    /\ IsReturned
    /\ response[1].value.success
    /\ probeSpawns = 1

\* C17: the registry holds a path only once a proxy transcode to that path
\* has succeeded; a preview call whose candidates all failed has added
\* nothing, and the path prepare-preview returns with useProxy=true is in
\* the registry.
C17_RegisteredOnlyAfterSuccess ==
    /\ previewProxyPaths # {} =>
          /\ handler = "prepare-preview"
          /\ previewProxyPaths = {outputPath}
          /\ LastAttempt.outcome = "succeeded"
          /\ outputPath \in files
    /\ (handler = "prepare-preview" /\ IsReturned /\ response[1].value.useProxy) =>
          response[1].value.path \in previewProxyPaths
    /\ (handler = "prepare-preview" /\ CallFailed) => previewProxyPaths = {}

\* prepare-preview returned the proxy made by a fallback encoder.
C17_Witness ==
    /\ handler = "prepare-preview"
    /\ IsReturned
    /\ response[1].value.useProxy
    /\ Len(attempts) >= 2
    /\ response[1].value.path \in previewProxyPaths

\* The call failed on the LUT path: not a .cube file, or not readable.
FailedOnLut ==
    /\ CallFailed
    /\ \/ /\ response[1].kind = "rejected"
          /\ response[1].error \in {"Only .cube LUT files are supported",
                                    "LUT file is not readable"}
       \/ /\ response[1].kind = "returned"
          /\ "error" \in DOMAIN response[1].value
          /\ response[1].value.error \in {"Only .cube LUT files are supported",
                                          "LUT file is not readable"}

\* C20 as stated: a call that fails on LUT validation has spawned no probe
\* and no encoder subprocess and has emitted no progress event.
C20_LutFailureBeforeAnySubprocess ==
    FailedOnLut => (probeSpawns = 0 /\ attempts = <<>> /\ events = <<>>)

(***************************************************************************)
(* Properties of the probe cache.                                          *)
(***************************************************************************)
\* C14 as stated: of two successive probe calls for a file whose size and
\* mtime are the same at both calls at most one spawns the inspection
\* process, and when they differ the second call spawns one.
C14_ProbedOncePerVersion ==
    \A j \in 1..(Len(probeLog) - 1) :
        (/\ probeLog[j].file = probeLog[j + 1].file
         /\ probeLog[j].stamp # 0 /\ probeLog[j + 1].stamp # 0
         /\ probeLog[j].outcome # "error" /\ probeLog[j + 1].outcome # "error") =>
            /\ (probeLog[j].stamp = probeLog[j + 1].stamp) =>
                  ~(probeLog[j].outcome = "spawned" /\ probeLog[j + 1].outcome = "spawned")
            /\ (probeLog[j].stamp # probeLog[j + 1].stamp) =>
                  probeLog[j + 1].outcome = "spawned"

CacheKeys == {probeInfoCache[j].key : j \in 1..Len(probeInfoCache)}

C15_CacheBounded ==
    /\ Len(probeInfoCache) <= ProbeCacheCapacity
    /\ Cardinality(CacheKeys) = Len(probeInfoCache)

C15_EvictsOldest ==
    \A w \in cacheWrites :
        (/\ cacheWrites' = cacheWrites \ {w}
         /\ fileStats[w.key] # 0
         /\ w.key \notin CacheKeys
         /\ Len(probeInfoCache) = ProbeCacheCapacity) =>
            probeInfoCache' = Tail(probeInfoCache)
                              \o <<[key |-> w.key, stamp |-> fileStats[w.key],
                                    info |-> w.info]>>

\* C15: after a cache write the probe cache never holds more than its
\* capacity of entries, and the write of a new path into a full cache
\* evicts exactly the entry inserted earliest and leaves the cache full.
C15_BoundedOldestFirst == []C15_CacheBounded /\ [][C15_EvictsOldest]_vars

\* One file more than the cache holds has been probed and written: the
\* first of them is no longer cached, the others are.
C15_Witness ==
    /\ Len(probeLog) = ProbeCacheCapacity + 1
    /\ Cardinality({probeLog[j].file : j \in 1..Len(probeLog)}) = ProbeCacheCapacity + 1
    /\ \A j \in 1..Len(probeLog) : probeLog[j].outcome = "spawned"
    /\ \A f \in ProbeFiles : fileStats[f] = 1
    /\ probe = None
    /\ cacheWrites = {}
    /\ Len(probeInfoCache) = ProbeCacheCapacity
    /\ probeLog[1].file \notin CacheKeys
    /\ probeInfoCache[1].key = probeLog[2].file

\* C30 as stated: only a probe whose inspection process was spawned creates
\* or updates a probe cache entry; a probe that failed with a spawn error
\* leaves the cache as it was.
C30_CachedOnlyAfterSpawn ==
    [][\A w \in cacheWrites :
          (cacheWrites' = cacheWrites \ {w} /\ probeInfoCache' # probeInfoCache)
              => w.spawned]_vars

\* C31 as stated: every probe cache entry pairs a size and modification
\* time with metadata probed from the file while it had that size and
\* modification time, whatever the interleaving of file modifications with
\* a probe (the entry of a probe that never spawned is left to C30).
C31_EntryMatchesProbedVersion ==
    \A j \in 1..Len(probeInfoCache) :
        probeInfoCache[j].info # 0 => probeInfoCache[j].info = probeInfoCache[j].stamp

(***************************************************************************)
(* Properties of the Proxy Registry.                                       *)
(***************************************************************************)
C18_QuitStep ==
    (quit = "no" /\ quit' = "before-quit") =>
        /\ previewProxyPaths' \cap previewProxyPaths = {}
        /\ \A q \in previewProxyPaths :
               [path |-> q, by |-> "before-quit", tracked |-> TRUE] \in unlinks'

C18_NoQuitError == quit # "unhandledRejection"

\* C18: before-quit removes every path the registry holds at that moment
\* from the registry and issues an unlink for each, and no unlink it issued
\* (of a missing file or otherwise) ends in an error.
C18_ShutdownCleansRegistry == []C18_NoQuitError /\ [][C18_QuitStep]_vars

\* before-quit has run on a registry of two proxies, one of them already
\* missing from the disk; both unlinks are issued and the registry is empty.
C18_Witness ==
    /\ quit = "before-quit"
    /\ previewProxyPaths = {}
    /\ \A f \in RegistrySources :
           [path |-> ProxyPath(f), by |-> "before-quit", tracked |-> TRUE] \in unlinks
    /\ \E f \in RegistrySources : ProxyPath(f) \notin files
    /\ \E f \in RegistrySources : ProxyPath(f) \in files

\* C19 as stated: cleanup-preview returns success=false with an error when
\* the unlink failed for a reason other than the file not existing, and
\* {success: true} when the file was deleted or already missing.
C19_CleanupReportsFailure ==
    cleanupResult # None =>
        IF cleanupResult[1].error \notin {"", "ENOENT"}
        THEN /\ cleanupResult[1].value.success = FALSE
             /\ "error" \in DOMAIN cleanupResult[1].value
        ELSE cleanupResult[1].value = [success |-> TRUE]

\* C35 as stated: cleanup-preview deletes only files the registry tracks;
\* called with a path that is not in the registry it leaves the registry as
\* it was, and the unlink it issued deletes no file.
C35_DeletesOnlyTracked ==
    /\ [][\A q \in CleanupPaths :
             (CleanupPreview(q) /\ q.t = "string" /\ q.v \notin previewProxyPaths)
                 => previewProxyPaths' = previewProxyPaths]_vars
    /\ [][\A u \in unlinks :
             (unlinks' = unlinks \ {u} /\ u.by = "cleanup-preview" /\ ~u.tracked)
                 => files' = files]_vars

\* C36 as stated: no proxy is leaked out of tracking; once an unlink issued
\* for a registered proxy has completed, the proxy is gone from the disk or
\* is a member of the registry, also when the unlink failed and when
\* before-quit ran during a preview transcode.
C36_NoProxyLeaked ==
    [][\A u \in unlinks :
          (unlinks' = unlinks \ {u} /\ u.tracked /\ u.path \in files')
              => u.path \in previewProxyPaths']_vars

\* The number of items the export job works through.
ItemCount ==
    IF handler = "process-batch" THEN Len(args.segments)
    ELSE Len(normalizedVideos(args.videos))

C39_Counts ==
    IsExport =>
        /\ \A j \in 1..Len(events) :
              /\ 0 <= events[j].currentClip
              /\ events[j].currentClip <= events[j].totalClips
              /\ events[j].totalClips = ItemCount
              /\ events[j].phase = "start" => events[j].currentClip = 0
              /\ events[j].phase = "progress" => events[j].currentClip >= 1
              /\ events[j].phase = "done" => events[j].currentClip = events[j].totalClips
        /\ \A j, k \in 1..Len(events) :
              j < k => events[j].currentClip <= events[k].currentClip

C39_ProgressStep ==
    (/\ IsExport
     /\ Len(events') = Len(events) + 1
     /\ events'[Len(events')].phase = "progress") =>
        events'[Len(events')].currentClip = i + 1

\* C39: in every event of an export job 0 <= currentClip <= totalClips and
\* totalClips is the job's item count in all of them; currentClip is 0 in
\* the start event, the 1-based index of the item in work in a progress
\* event, never decreases, and equals totalClips in the done event.
C39_ItemCounts == []C39_Counts /\ [][C39_ProgressStep]_vars

\* A job of two items, the first exported, has reported progress on each and
\* has ended.
C39_Witness ==
    /\ IsExport
    /\ Len(events) >= 4
    /\ events[Len(events)].phase = "done"
    /\ events[Len(events)].currentClip = 2
    /\ Len(results) = 2
    /\ results[1].success
    /\ \E j \in 1..Len(events) : events[j].phase = "progress" /\ events[j].currentClip = 1
    /\ \E j \in 1..Len(events) : events[j].phase = "progress" /\ events[j].currentClip = 2

(***************************************************************************)
(* Properties of two calls served concurrently.                            *)
(***************************************************************************)
\* The first call has an encoder subprocess running.
MainWriting == attempts # <<>> /\ attempts[Len(attempts)].outcome = "running"

\* The outputs the first call has completed: those in its result list and
\* the one of the chain that has just returned.
MainOutputs ==
    {results[j].path : j \in {k \in 1..Len(results) : results[k].success}}
    \cup (IF attempts # <<>> /\ attempts[Len(attempts)].outcome = "succeeded"
          THEN {outputPath} ELSE {})

\* The output the second call has completed.
RivalOutputs == IF rival.outcome = "succeeded" THEN {rival.outputPath} ELSE {}

\* A step of one call deletes no completed output of the other.
OutputsKept ==
    /\ rival' # rival => \A q \in MainOutputs \cap files : q \in files'
    /\ rival' = rival => \A q \in RivalOutputs \cap files : q \in files'

C37_DistinctProxyPaths ==
    (handler = "prepare-preview" /\ rival.handler = "prepare-preview" /\ outputPath # <<>>)
        => outputPath # rival.outputPath

\* C37 as stated: two concurrent prepare-preview calls with forceProxy never
\* transcode to the same proxy path, whatever their sources and clock
\* readings, and no failure cleanup of one deletes the proxy of the other.
C37_ConcurrentProxiesApart ==
    /\ []C37_DistinctProxyPaths
    /\ [][handler = "prepare-preview" => OutputsKept]_vars

C38_DistinctOutputs ==
    (IsExport /\ rival.handler = handler /\ MainWriting /\ rival.pc = "running")
        => outputPath # rival.outputPath

\* C38 as stated: two concurrent batch exports of the same kind never have
\* encoders writing to one output path at the same time, and no failure
\* cleanup of one deletes an output the other has written.
C38_ConcurrentExportsApart ==
    /\ []C38_DistinctOutputs
    /\ [][IsExport => OutputsKept]_vars

(***************************************************************************)
(* Properties of the batch loops.                                          *)
(***************************************************************************)
\* C21 as stated: process-batch called with an empty segment list fails
\* with an error that escapes the call, before any subprocess (the bitrate
\* probe included) is spawned, and returns no result.
C21_EmptySegmentListRejected ==
    (handler = "process-batch" /\ args.segments = <<>>) =>
        /\ probeSpawns = 0
        /\ pc = "done"
        /\ response # None
        /\ response[1].kind = "rejected"

RunningAttempts == {j \in 1..Len(attempts) : attempts[j].outcome = "running"}

C22_OneSubprocess ==
    IsExport =>
        /\ Cardinality(RunningAttempts) <= 1
        /\ RunningAttempts # {} => (RunningAttempts = {Len(attempts)} /\ pc = "running")
        /\ pc \in {"item", "running", "unlink", "returned", "thrown"} => Len(results) = i

C22_SubprocessStart ==
    (/\ handler' \in {"process-batch", "process-lut-full-batch"}
     /\ \/ probeSpawns' # probeSpawns
        \/ /\ attempts' # attempts
           /\ attempts' # <<>>
           /\ attempts'[Len(attempts')].outcome = "running") =>
        /\ RunningAttempts = {}
        /\ Len(results) = i
        /\ i' = i \/ (i' = i + 1 /\ Len(results') = i + 1)

\* C22: within one batch call at most one transcode subprocess is running at
\* any moment, and a subprocess (probe or transcode) starts only when no
\* transcode is running and every earlier item has its result recorded.
C22_StrictlySequential == []C22_OneSubprocess /\ [][C22_SubprocessStart]_vars

\* The second item is being exported by its second candidate; the first
\* item's result is recorded.
C22_Witness ==
    /\ IsExport
    /\ i = 1
    /\ Len(results) = 1
    /\ pc = "running"
    /\ Len(attempts) = 2
    /\ RunningAttempts = {2}

\* An upper bound of the transcode subprocesses a process-batch call has
\* started: a full candidate list for every settled item, and the attempts
\* of the item being exported.
AttemptsCharged ==
    IF handler # "process-batch" THEN 0
    ELSE i * Len(getExportEncoderAttempts(platform))
         + (IF pc \in {"running", "unlink", "returned", "thrown"} THEN Len(attempts) ELSE 0)

C32_AttemptsBounded ==
    handler = "process-batch" =>
        /\ AttemptsCharged <= Len(args.segments) * Len(getExportEncoderAttempts(platform))
        /\ pc \in {"running", "unlink", "returned", "thrown"} =>
              /\ i < Len(args.segments)
              /\ Len(attempts) <= Len(encoderAttempts)
              /\ \A j, k \in 1..Len(attempts) :
                     attempts[j].encoder = attempts[k].encoder => j = k

C32_AttemptStep ==
    handler' = "process-batch" =>
        /\ AttemptsCharged' >= AttemptsCharged
        /\ (/\ attempts' # attempts
            /\ attempts' # <<>>
            /\ attempts'[Len(attempts')].outcome = "running") =>
               AttemptsCharged' > AttemptsCharged

\* C32: for each item of a batch the encoder attempts are at most as many as
\* the candidates and each candidate is attempted at most once; every
\* subprocess started is charged to a budget of n * |candidates| that is
\* never exceeded; and when every started subprocess exits the call
\* returns.
C32_BoundedAttemptsAndReturn ==
    /\ []C32_AttemptsBounded
    /\ [][C32_AttemptStep]_vars
    /\ (handler = "process-batch") ~> (pc = "done" /\ response # None)

\* Both items of a batch used every candidate of win32 and failed; the call
\* returned their results.
C32_Witness ==
    /\ handler = "process-batch"
    /\ platform = "win32"
    /\ pc = "done"
    /\ IsReturned
    /\ Len(args.segments) = 2
    /\ i = 2
    /\ Len(attempts) = Len(encoderAttempts)
    /\ \A k \in 1..2 : ~response[1].value.results[k].success

\* C33 as stated: every element of the videos array passed to
\* process-lut-full-batch is accounted for: the result list of a call that
\* succeeded holds exactly one entry per element, and the total of every
\* progress event is the length of the array.
C33_EveryVideoAccounted ==
    (handler = "process-lut-full-batch" /\ args.videos.t = "array") =>
        /\ \A j \in 1..Len(events) : events[j].totalClips = Len(args.videos.v)
        /\ (IsReturned /\ response[1].value.success) =>
              /\ Len(response[1].value.results) = Len(args.videos.v)
              /\ \A k \in 1..Len(args.videos.v) :
                     /\ args.videos.v[k].t = "object"
                     /\ args.videos.v[k].id = JsString(response[1].value.results[k].id)

(***************************************************************************)
(* Properties of the encoder candidate lists.                              *)
(***************************************************************************)
IsHardware(encoder) == encoder[1] # "libx264"

HardwareCount(p) == IF p = "win32" THEN 3 ELSE IF p = "darwin" THEN 1 ELSE 0

HardwareFirst(candidates, p) ==
    /\ Len(candidates) > HardwareCount(p)
    /\ \A j \in 1..Len(candidates) : IsHardware(candidates[j]) <=> j <= HardwareCount(p)

\* C23 as stated: the candidate list of a preview or export chain holds
\* three hardware candidates on win32, one on darwin and none elsewhere,
\* followed by software: one candidate for the preview, and for export the
\* primary preset and, exactly when it differs, the fallback preset.
C23_CandidateLists ==
    InChain =>
        /\ HardwareFirst(encoderAttempts, platform)
        /\ SubSeq(encoderAttempts, HardwareCount(platform) + 1, Len(encoderAttempts))
           = IF handler = "prepare-preview"
             THEN << <<"libx264">> >>
             ELSE IF EXPORT_FALLBACK_X264_PRESET # EXPORT_PRIMARY_X264_PRESET
             THEN << <<"libx264", EXPORT_PRIMARY_X264_PRESET>>,
                     <<"libx264", EXPORT_FALLBACK_X264_PRESET>> >>
             ELSE << <<"libx264", EXPORT_PRIMARY_X264_PRESET>> >>

(***************************************************************************)
(* Properties of the output names of process-lut-full-batch.               *)
(***************************************************************************)
\* The k-th name tried for out/video.mp4: video_lut.mov, video_lut_2.mov, ...
LutOutputName(k) ==
    IF k = 1 THEN <<"out", "/", "video", "_lut", ".mov">>
    ELSE <<"out", "/", "video", "_lut", "_", DigitChar(k), ".mov">>

C26_Allocation ==
    (handler = "process-lut-full-batch" /\ pc = "item" /\ pc' = "running") =>
        \E k \in 1..(SuffixLimit - 1) :
            /\ outputPath' = LutOutputName(k)
            /\ LutOutputName(k) \notin files
            /\ \A t \in 1..(k - 1) : LutOutputName(t) \in files

\* C26: the output name allocated for a video is dir/base.ext when that name
\* is unused and otherwise dir/base_k.ext for the smallest k >= 2 whose name
\* is unused: every earlier candidate exists and the returned one does not.
C26_SmallestUnusedName == [][C26_Allocation]_vars

\* video_lut.mov exists and the second video is exported to video_lut_2.mov.
C26_Witness ==
    /\ handler = "process-lut-full-batch"
    /\ pc = "running"
    /\ LutOutputName(1) \in files
    /\ outputPath = <<"out", "/", "video", "_lut", "_", "2", ".mov">>

(***************************************************************************)
(* Properties of the percent of a batch job.                               *)
(***************************************************************************)
\* round(100 * k / n) in exact arithmetic, halves rounded up.
ExactShare(k, n) == (200 * k + n) \div (2 * n)

\* C27 as stated: a phase=progress event sent while item c of n is
\* processed carries a percent from round(100(c-1)/n) to round(100c/n), and
\* once item i has finished the last percent sent is round(100i/n).
C27_PercentWithinShare ==
    (IsExport /\ HasJobId) =>
        /\ \A j \in 1..Len(events) :
              events[j].phase = "progress" =>
                  /\ events[j].currentClip \in 1..events[j].totalClips
                  /\ events[j].percent >=
                        ExactShare(events[j].currentClip - 1, events[j].totalClips)
                  /\ events[j].percent <=
                        ExactShare(events[j].currentClip, events[j].totalClips)
        /\ (pc = "item" /\ i >= 1) =>
              /\ events # <<>>
              /\ events[Len(events)].percent
                    = ExactShare(i, events[Len(events)].totalClips)

(***************************************************************************)
(* The calls when the inspection process can never be spawned: every probe *)
(* of a handler fails, and the output options of an export are those built *)
(* from the bitrates of a failed probe.                                    *)
(***************************************************************************)
ProbeSpawnError == [spawnError |-> TRUE, durationSec |-> None, stream |-> None]

NextProbeFails ==
    \/ \E a \in FairBatchArgs : CallProcessBatch(a)
    \/ BatchProbe(ProbeSpawnError)
    \/ \E f \in BOOLEAN : BatchStart(f)
    \/ BatchItem
    \/ ClipProgress(ProgressEventList[5])
    \/ BatchItemDone
    \/ \E f \in BOOLEAN : BatchItemFailed(f)
    \/ BatchFinish
    \/ \E a \in [videos : VideoInputs(MaxItems), outputDir : {"out"},
                 lutPath : {ValidLutPath}, jobId : {JsUndefined}] : CallLutBatch(a)
    \/ \E f \in BOOLEAN : LutStart(f)
    \/ LutItem(ProbeSpawnError)
    \/ VideoProgress(ProgressEventList[5])
    \/ LutItemDone
    \/ LutItemFailed
    \/ LutFinish
    \/ \E a \in PreparePreviewArgs : CallPreparePreview(a)
    \/ PreviewProbe(ProbeSpawnError)
    \/ \E f \in BOOLEAN : PreviewMkdir(f)
    \/ PreviewCommandStart
    \/ PreviewProgress(ProgressEventList[5])
    \/ PreviewDone
    \/ PreviewFailed
    \/ AttemptEnd
    \/ \E m \in ErrorMessages, partial \in BOOLEAN : AttemptError(m, partial)
    \/ \E f \in BOOLEAN : AttemptCleanup(f)
    \/ \E code \in {0, 1}, encoder \in {<<"libx264", EXPORT_PRIMARY_X264_PRESET>>, <<"h264_qsv">>} :
           ProbeSource(<<>>, code, TRUE, encoder)

SpecProbeFails == InitBatchFair /\ [][NextProbeFails]_vars

(***************************************************************************)
(* Two calls of one handler served concurrently.  ipcMain.handle starts a  *)
(* handler for every invoke it receives, and a handler gives way at each   *)
(* await.  The first call is the one the call variables hold; the second   *)
(* is followed through its first item: its output path, the encoder        *)
(* subprocesses writing to it and the unlink after each failure.           *)
(***************************************************************************)
RivalCandidates ==
    IF rival.handler = "prepare-preview" THEN PreviewEncoderAttempts(platform)
    ELSE getExportEncoderAttempts(platform)

RivalSpawn(h, path) ==
    [handler |-> h, pc |-> "running", outputPath |-> path, index |-> 0, outcome |-> "none"]

\* Lines 486-498: a second prepare-preview with forceProxy reaches
\* createPreviewProxy, reads the clock and spawns its first encoder.
RivalPreview(filePath, now) ==
    /\ handler = "prepare-preview"
    /\ rival.handler = "none"
    /\ madeDirs' = madeDirs \cup {"tmp"}
    /\ rival' = RivalSpawn("prepare-preview", ProxyPathAt(filePath, now))
    /\ UNCHANGED <<platform, files, previewProxyPaths, callVars, batchVars, chainVars,
                   cacheVars, unlinks, quit, cleanupResult>>

\* Lines 1015-1020: a second process-batch names its first clip and spawns
\* the first encoder.
RivalBatch(filePath, outputDir) ==
    /\ handler = "process-batch"
    /\ rival.handler = "none"
    /\ madeDirs' = madeDirs \cup {outputDir}
    /\ rival' = RivalSpawn("process-batch", ClipOutputPath(outputDir, Basename(filePath), 1))
    /\ UNCHANGED <<platform, files, previewProxyPaths, callVars, batchVars, chainVars,
                   cacheVars, unlinks, quit, cleanupResult>>

\* Lines 1117-1119: a second process-lut-full-batch allocates the name of
\* its first video from the files that exist now and spawns the first
\* encoder; without a free name the video fails.
RivalLutBatch(filePath, outputDir) ==
    /\ handler = "process-lut-full-batch"
    /\ rival.handler = "none"
    /\ madeDirs' = madeDirs \cup {outputDir}
    /\ LET allocated == buildUniqueOutputPath(files, outputDir,
                                              <<Basename(filePath), "_lut">>, ".mov")
       IN  rival' = IF allocated = None
                    THEN [NoRival EXCEPT !.handler = "process-lut-full-batch",
                                         !.pc = "done", !.outcome = "failed"]
                    ELSE RivalSpawn("process-lut-full-batch", allocated[1])
    /\ UNCHANGED <<platform, files, previewProxyPaths, callVars, batchVars, chainVars,
                   cacheVars, unlinks, quit, cleanupResult>>

\* ffmpeg's 'end' event in the second call; a proxy is registered (544).
RivalEnd ==
    /\ rival.pc = "running"
    /\ files' = files \cup {rival.outputPath}
    /\ previewProxyPaths' = IF rival.handler = "prepare-preview"
                            THEN RegisterProxy(previewProxyPaths, rival.outputPath)
                            ELSE previewProxyPaths
    /\ rival' = [rival EXCEPT !.pc = "done", !.outcome = "succeeded"]
    /\ UNCHANGED <<platform, madeDirs, callVars, batchVars, chainVars, cacheVars,
                   unlinks, quit, cleanupResult>>

\* ffmpeg's 'error' event in the second call.
RivalError(partial) ==
    /\ rival.pc = "running"
    /\ files' = IF partial THEN files \cup {rival.outputPath} ELSE files
    /\ rival' = [rival EXCEPT !.pc = "unlink"]
    /\ UNCHANGED <<platform, madeDirs, previewProxyPaths, callVars, batchVars, chainVars,
                   cacheVars, unlinks, quit, cleanupResult>>

\* The catch clause of the second call: removeFileIfExists, then the next
\* candidate or the failure of the item.
RivalCleanup(unlinkFails) ==
    /\ rival.pc = "unlink"
    /\ files' = removeFileIfExists(files, rival.outputPath, unlinkFails).files
    /\ rival' = IF HasNextCandidate(rival.index, RivalCandidates)
                THEN [rival EXCEPT !.index = rival.index + 1, !.pc = "running"]
                ELSE [rival EXCEPT !.pc = "done", !.outcome = "failed"]
    /\ UNCHANGED <<platform, madeDirs, previewProxyPaths, callVars, batchVars, chainVars,
                   cacheVars, unlinks, quit, cleanupResult>>

\* The sources of the second call: the first call's and another file.
RivalSources == {SourcePath, <<"in", "/", "video", ".mp4">>}

NextConcurrent ==
    \/ \E a \in ProxyPreviewArgs({SourcePath}) : CallPreparePreview(a)
    \/ \E o \in ProbeOutcomes : PreviewProbe(o)
    \/ \E f \in BOOLEAN : PreviewMkdir(f)
    \/ PreviewCommandStart
    \/ PreviewDone
    \/ PreviewFailed
    \/ \E a \in [filePath : {SourcePath}, outputDir : {"out"},
                 segments : {[k \in 1..m |-> Segment(k, <<0, 2>>)] : m \in 1..MaxItems},
                 lutPath : {JsUndefined}, jobId : {JsUndefined}] : CallProcessBatch(a)
    \/ \E o \in ProbeOutcomes : BatchProbe(o)
    \/ \E f \in BOOLEAN : BatchStart(f)
    \/ BatchItem
    \/ BatchItemDone
    \/ \E f \in BOOLEAN : BatchItemFailed(f)
    \/ BatchFinish
    \/ \E a \in [videos : {JsArray([k \in 1..m |-> Video(k)]) : m \in 1..MaxItems},
                 outputDir : {"out"}, lutPath : {ValidLutPath}, jobId : {JsUndefined}] :
           CallLutBatch(a)
    \/ \E f \in BOOLEAN : LutStart(f)
    \/ \E o \in ProbeOutcomes : LutItem(o)
    \/ LutItemDone
    \/ LutItemFailed
    \/ LutFinish
    \/ AttemptEnd
    \/ \E m \in ErrorMessages, partial \in BOOLEAN : AttemptError(m, partial)
    \/ \E f \in BOOLEAN : AttemptCleanup(f)
    \/ \E f \in RivalSources, now \in {Now, Later} : RivalPreview(f, now)
    \/ \E f \in RivalSources : RivalBatch(f, "out")
    \/ \E f \in RivalSources : RivalLutBatch(f, "out")
    \/ RivalEnd
    \/ \E partial \in BOOLEAN : RivalError(partial)
    \/ \E f \in BOOLEAN : RivalCleanup(f)

\* One call of a handler and a second call of the same handler.
SpecConcurrent == InitLongBatch /\ [][NextConcurrent]_vars

(***************************************************************************)
(* Properties of the pure functions.                                       *)
(***************************************************************************)
\* round(100 * seconds / total) in exact arithmetic, clamped to 0..100.
ExactPercent(timemark, total) ==
    ClampInt((200 * (timemark[1] * 3600 + timemark[2] * 60 + timemark[3]) + total)
             \div (2 * total))

\* C29: the value a progress sample passes to onProgress lies in [0, 100];
\* it is the engine's percent (clamped) when that is a finite number,
\* otherwise elapsed time / total duration * 100 (clamped) when the duration
\* is known and positive and the time marker parses, and otherwise there is
\* no call.
C29_OnProgressValue ==
    (handler = "progress" /\ response # None) =>
        LET progress == args.progress
            total    == args.durationSec
            value    == response[1].value
        IN  /\ value # None => ~LessD(D100, value[1])
            /\ IF progress.percent.t = "number"
               THEN value = Some(FromInt(IF progress.percent.v < 0 THEN 0
                                         ELSE IF progress.percent.v > 100 THEN 100
                                         ELSE progress.percent.v))
               ELSE IF total # None /\ total[1] > 0 /\ progress.timemark # <<>>
               THEN /\ value # None
                    /\ MathRound(value[1]) = ExactPercent(progress.timemark, total[1])
               ELSE value = None

\* The engine reported no percent; 3 of 2 seconds elapsed gives 150, passed
\* to onProgress as 100.
C29_Witness ==
    /\ handler = "progress"
    /\ args.progress = [percent |-> JsUndefined, timemark |-> <<0, 0, 3>>]
    /\ args.durationSec = Some(2)
    /\ response = Returned(Some(D100))

\* The text of a filter graph ends in an opacity of four decimals that is
\* the ten-thousandth nearest to thousandths / 100000.
OpacityNearest(graph, thousandths) ==
    \E n \in 0..10000 :
        /\ SubSeq(graph, Len(graph) - 5, Len(graph)) = FixedDigits(n)
        /\ 10 * n - thousandths \in -5..5

\* C24: buildLutFilterGraph with a non-null LUT path returns null for every
\* intensity <= 0, the direct LUT application without a blend for every
\* intensity >= 100, and for every intensity strictly between a split/blend
\* graph that holds the LUT application and a blend whose opacity is
\* intensity / 100 written with exactly four decimals (0.5000 for 50); with
\* a null LUT path it returns null for every intensity.
C24_LutFilterGraph ==
    (handler = "buildLutFilterGraph" /\ response # None /\ ~args.normalized
        /\ args.lutIntensity.t = "number") =>
        LET lutPath == args.lutPath
            k       == args.lutIntensity.milli
            graph   == response[1].value
            blend   == "[lutout];[lutout][orig]blend=all_mode=normal:all_opacity="
        IN  IF lutPath = <<>> \/ k <= 0 THEN graph = None
            ELSE IF k >= 100000
            THEN /\ graph = Some(buildLutFilter(lutPath))
                 /\ \A j \in 1..Len(graph[1]) : graph[1][j] # blend
            ELSE /\ graph # None
                 /\ \E j \in 1..Len(graph[1]) :
                        /\ SubSeq(graph[1], j, j + Len(buildLutFilter(lutPath)) - 1)
                               = buildLutFilter(lutPath)
                        /\ graph[1][j + Len(buildLutFilter(lutPath))] = blend
                        /\ Len(graph[1]) = j + Len(buildLutFilter(lutPath)) + 6
                 /\ OpacityNearest(graph[1], k)
                 /\ k = 50000 =>
                        SubSeq(graph[1], Len(graph[1]) - 5, Len(graph[1]))
                            = <<"0", ".", "5", "0", "0", "0">>

\* Intensity 50 on a LUT file gives the blend graph with opacity 0.5000.
C24_Witness ==
    /\ handler = "buildLutFilterGraph"
    /\ args = [lutPath |-> <<"a", ".cube">>, lutIntensity |-> Milli(50000),
               normalized |-> FALSE]
    /\ response = Returned(Some(<<"split=2[orig][lutsrc];[lutsrc]", "lut3d=file='", "a",
                                  ".cube", "'",
                                  "[lutout];[lutout][orig]blend=all_mode=normal:all_opacity=",
                                  "0", ".", "5", "0", "0", "0">>))

\* Option flag is in the list, followed by kbps and the letter k.
HasBitRate(outputOptions, flag, kbps) ==
    \E j \in 1..(Len(outputOptions) - 1) :
        outputOptions[j] = <<flag>> /\ outputOptions[j + 1] = Digits(kbps) \o <<"k">>

HasOption(outputOptions, flag) ==
    \E j \in 1..Len(outputOptions) : outputOptions[j] = <<flag>>

\* C25: -b:v is among the export options exactly when a positive video
\* bitrate is known and -b:a exactly when a positive audio bitrate is known.
\* The video bitrate is the probed bitrate of the video stream when present;
\* otherwise, when a container bitrate is known (a number other than 0), it
\* is max(400, container bitrate - audio bitrate) with an unknown audio
\* bitrate counted as 0; otherwise none is known and no -b:v is added.
C25_BitRateOptions ==
    (handler = "probeSourceInfoWithBitrates" /\ response # None) =>
        LET info    == response[1].value.source.info
            options == response[1].value.outputOptions
            audio   == IF info.audioStream = None THEN None
                       ELSE info.audioStream[1].bit_rate_kbps
            lessAudio == info.formatBitRateKbps[1] - (IF audio = None THEN 0 ELSE audio[1])
            video   == IF info.stream # None /\ info.stream[1].bit_rate_kbps # None
                       THEN info.stream[1].bit_rate_kbps
                       ELSE IF info.formatBitRateKbps # None /\ info.formatBitRateKbps[1] > 0
                       THEN Some(IF lessAudio < 400 THEN 400 ELSE lessAudio)
                       ELSE None
        IN  /\ response[1].value.source.sourceVideoBitRateKbps = video
            /\ response[1].value.source.sourceAudioBitRateKbps = audio
            /\ IF video # None /\ video[1] > 0
               THEN HasBitRate(options, "-b:v", video[1])
               ELSE ~HasOption(options, "-b:v")
            /\ IF audio # None /\ audio[1] > 0
               THEN HasBitRate(options, "-b:a", audio[1])
               ELSE ~HasOption(options, "-b:a")

\* A source whose video line has no bitrate, with 300 kb/s for the container
\* and 128 kb/s of audio: 172 is raised to 400.
C25_Witness ==
    /\ handler = "probeSourceInfoWithBitrates"
    /\ response # None
    /\ response[1].value.source.info.stream # None
    /\ response[1].value.source.info.stream[1].bit_rate_kbps = None
    /\ response[1].value.source.info.formatBitRateKbps = Some(300)
    /\ response[1].value.source.sourceAudioBitRateKbps = Some(128)
    /\ HasBitRate(response[1].value.outputOptions, "-b:v", 400)
    /\ HasBitRate(response[1].value.outputOptions, "-b:a", 128)

\* Some line of the output has the word.
SomeLineHas(stderrOutput, marker) ==
    \E j \in 1..Len(stderrOutput) : Includes(stderrOutput[j], marker)

\* The line holds a positive number followed by kb/s.
HasRate(line) ==
    \E j \in 1..(Len(line) - 1) :
        line[j].k = "num" /\ line[j].n[1] > 0 /\ line[j + 1] = Tok("word", "kb/s", <<>>)

\* C28: a probe fails only when spawning the inspection process fails.
\* Whatever the process prints and whatever its exit code, the probe returns
\* the stream info: the video stream is null exactly when no line of the
\* output is a video-stream line, and a field that cannot be parsed (the
\* duration, a bitrate, the codec, the resolution) is absent.
C28_ProbeFailsOnlyOnSpawn ==
    (handler = "probeSourceInfoWithBitrates" /\ response # None) =>
        LET settled == response[1].value.probe
            output  == args.stderrOutput
            info    == settled[1].value
        IN  /\ settled[1].kind = "rejected" <=> args.spawnFails
            /\ ~args.spawnFails =>
                   /\ settled[1].kind = "returned"
                   /\ info.stream = None <=> ~SomeLineHas(output, "Video:")
                   /\ info.durationSec = None <=>
                          ~\E j \in 1..Len(output) :
                               /\ output[j][1] = Tok("word", "Duration:", <<>>)
                               /\ output[j][2].k = "time"
                   /\ info.formatBitRateKbps = None <=>
                          ~\E j \in 1..Len(output) :
                               /\ output[j][1] = Tok("word", "Duration:", <<>>)
                               /\ HasRate(output[j])
                   /\ info.stream # None =>
                          \A j \in 1..Len(output) :
                              Includes(output[j], "Video:") =>
                                  /\ info.stream[1].bit_rate_kbps = None <=> ~HasRate(output[j])
                                  /\ info.stream[1].codec_name = None <=> Len(output[j]) = 2
                                  /\ info.stream[1].width = None <=> Len(output[j]) = 2
                   /\ (info.audioStream # None /\ info.audioStream[1].bit_rate_kbps # None) <=>
                          \E j \in 1..Len(output) :
                              Includes(output[j], "Audio:") /\ HasRate(output[j])

\* The process exits with code 1 after printing an audio stream only: the
\* probe returns the info with a null video stream.
C28_Witness ==
    /\ handler = "probeSourceInfoWithBitrates"
    /\ args.exitCode = 1
    /\ ~args.spawnFails
    /\ ~SomeLineHas(args.stderrOutput, "Video:")
    /\ SomeLineHas(args.stderrOutput, "Audio:")
    /\ response # None
    /\ response[1].value.probe[1].kind = "returned"
    /\ response[1].value.probe[1].value.stream = None
    /\ response[1].value.probe[1].value.audioStream # None

(***************************************************************************)
(* Properties of the calls whose probe cannot be spawned.                  *)
(***************************************************************************)
C34_AfterFailedProbe ==
    /\ (handler = "prepare-preview" /\ IsReturned /\ response[1].value.success) =>
           ~response[1].value.suggestCompatibleMode
    /\ (handler = "prepare-preview" /\ IsReturned /\ ~response[1].value.success) =>
           \/ response[1].value.error \in ErrorMessages
           \/ response[1].value.error \in {"Invalid file path", "EACCES: mkdir",
                                           "Only .cube LUT files are supported",
                                           "LUT file is not readable"}
    /\ IsExport =>
           /\ pc \in {"running", "unlink", "returned", "thrown"} => probeSpawns > 0
           /\ \A k \in 1..Len(results) :
                  results[k].success \/ results[k].error \in ErrorMessages
           /\ (pc = "done" /\ probeSpawns > 0 /\ IsReturned) =>
                  /\ response[1].value.success
                  /\ Len(response[1].value.results) =
                         IF handler = "process-batch" THEN Len(args.segments)
                         ELSE Len(normalizedVideos(args.videos))
    /\ (handler = "probeSourceInfoWithBitrates" /\ response # None) =>
           /\ response[1].value.probe[1].kind = "rejected"
           /\ response[1].value.source.sourceVideoBitRateKbps = None
           /\ response[1].value.source.sourceAudioBitRateKbps = None
           /\ ~HasOption(response[1].value.outputOptions, "-b:v")
           /\ ~HasOption(response[1].value.outputOptions, "-b:a")

C34_FailedProbeStep ==
    probeSpawns' # probeSpawns =>
        /\ probeInfo' = EmptyProbeInfo
        /\ IsExport => (response' = None /\ pc' \in {"start", "running"})
        /\ (handler = "prepare-preview" /\ pc' = "done") =>
               \/ ~forceProxyOrDefault(args.forceProxy) /\ response'[1].value.success
               \/ ~resolveLutPath(args.lutPath).ok

\* C34: a failure to spawn the probe process never aborts a call:
\* prepare-preview goes on with suggestCompatibleMode=false, and process-batch
\* and process-lut-full-batch go on to transcode the input without -b:v and
\* -b:a, the result of the item being success or the encoder's error.
C34_ProbeFailureTolerated == []C34_AfterFailedProbe /\ [][C34_FailedProbeStep]_vars

\* After the probe of its only video could not be spawned, a LUT batch has
\* exported the video and returned its result.
C34_Witness ==
    /\ handler = "process-lut-full-batch"
    /\ probeSpawns = 1
    /\ probeInfo = EmptyProbeInfo
    /\ pc = "done"
    /\ IsReturned
    /\ Len(response[1].value.results) = 1
    /\ response[1].value.results[1].success

====
